---- MODULE Spec2Model ----
(***************************************************************************)
(* Forecast-resolution pipeline of climate_ai_app_enhanced.py:             *)
(*   - main's model-loading step and the Streamlit session state,          *)
(*   - load_location_model with its two tiers load_s3_models and           *)
(*     load_local_model (both wrapped in st.cache_data),                   *)
(*   - predict_weather_location and generate_realistic_weather_fallback,   *)
(*   - the forecast, disaster-risk and climate-trends views.               *)
(*                                                                         *)
(* Units.  Raw regressor outputs, climate baselines and noise are integers *)
(* in thousandths of the physical unit; values after round(x, 1) and the   *)
(* risk thresholds are integers in tenths.  Dates are records [y, m, d].   *)
(* One behaviour of Spec is one run of the Streamlit script.               *)
(***************************************************************************)
EXTENDS Integers, Sequences, FiniteSets, TLC

VARIABLES
    pc,             \* position of the script run
    today,          \* datetime.now() of the run
    selected_city,  \* the sidebar's selected city
    current_model,  \* st.session_state.current_model
    current_city,   \* st.session_state.current_city
    s3_cache,       \* st.cache_data store of load_s3_models, per city
    local_cache,    \* st.cache_data store of load_local_model, per city
    models,         \* local variable `models` of the tier that is running
    scalers,        \* local variable `scalers` of the tier that is running
    tidx,           \* position of the tier's loop over the targets
    s3_seen,        \* what the object store answered for each target
    local_seen,     \* what the file system answered for each target
    s3_outcome,     \* how load_s3_models ended
    s3_reason,      \* which exit of load_s3_models was taken
    local_outcome,  \* how load_local_model ended
    local_reason,   \* which exit of load_local_model was taken
    resolve_outcome,\* how load_location_model ended
    page,           \* the view that was rendered
    origin,         \* the generator the view called
    call_args,      \* the arguments of the view's forecast call
    forecast_data,  \* the sequence the view's forecast call returned
    risks,          \* the risks dict of the disaster-risk view
    view_error      \* the view reported st.error and returned

resolveVars == <<models, scalers, tidx, s3_seen, local_seen, s3_outcome, s3_reason,
                 local_outcome, local_reason, resolve_outcome>>
sessionVars == <<selected_city, current_model, current_city>>
cacheVars   == <<s3_cache, local_cache>>
viewVars    == <<page, origin, call_args, forecast_data, risks, view_error>>
vars == <<pc, today, sessionVars, cacheVars, resolveVars, viewVars>>

---------------------------------------------------------------------------
(* Bounds *)

\* Longest forecast horizon a view may ask for.
MaxHorizon == 30

---------------------------------------------------------------------------
(* Values *)

None == [none |-> TRUE]

\* The loops of both tiers and the fields of a day's prediction.
Targets == <<"temperature", "humidity", "pressure", "wind_speed">>
TargetSet == {Targets[i] : i \in 1..Len(Targets)}

\* Cities the sidebar offers: one per climate type of the profile table, and
\* one (ludhiana) that the profile table does not hold.
Cities == {"new_delhi", "jaipur", "bangalore", "ludhiana"}

Return(v) == [kind |-> "return", value |-> v]
Raise == [kind |-> "raise", value |-> None]
NotCalled == [kind |-> "not_called", value |-> None]

\* Python truth value of a tier's result: None is falsy, a model_data dict
\* always has its four keys and is truthy.
Truthy(v) == v # None

\* The targets of a bundle that have both a regressor and a scaler.
Covered(md) == md.models \cap md.scalers

---------------------------------------------------------------------------
(* load_s3_models *)

FetchOutcomes == {"ok", "NoSuchKey", "error"}

S3ModelData(m, s, city) ==
    [models |-> m, scalers |-> s, model_info |-> "s3_info", city |-> city]

\* The outer except of load_s3_models.
S3ExceptReraises == Raise
S3Except == Return(None)

\* `if not models: return None` and the return of model_data.
S3AfterLoop(m, s, city) ==
    IF m = {} THEN Return(None) ELSE Return(S3ModelData(m, s, city))

Unread == [t \in TargetSet |-> "unread"]

\* load_s3_models ends with `out`; st.cache_data stores a returned value.
S3Exit(out, reason, seen) ==
    /\ s3_outcome' = out
    /\ s3_reason' = reason
    /\ s3_seen' = seen
    /\ s3_cache' = IF out.kind = "return"
                   THEN [s3_cache EXCEPT ![selected_city] = {out.value}]
                   ELSE s3_cache
    /\ pc' = "s3_done"
    /\ UNCHANGED <<models, scalers, tidx>>

\* The loop moves to the next target, or ends.
S3Continue(m, s, seen) ==
    IF tidx < Len(Targets)
    THEN /\ models' = m
         /\ scalers' = s
         /\ tidx' = tidx + 1
         /\ s3_seen' = seen
         /\ pc' = "s3_model"
         /\ UNCHANGED <<s3_outcome, s3_reason, s3_cache>>
    ELSE /\ models' = m
         /\ scalers' = s
         /\ s3_outcome' = S3AfterLoop(m, s, selected_city)
         /\ s3_reason' = IF s3_outcome'.value = None THEN "no_models" ELSE "bundle"
         /\ s3_seen' = seen
         /\ s3_cache' = IF s3_outcome'.kind = "return"
                        THEN [s3_cache EXCEPT ![selected_city] = {s3_outcome'.value}]
                        ELSE s3_cache
         /\ pc' = "s3_done"
         /\ UNCHANGED tidx

\* boto3.client and the get_object of model_info_{city}.json.
S3GetInfo(o) ==
    /\ pc = "s3_info"
    /\ CASE o = "ok" ->
              /\ pc' = "s3_model"
              /\ models' = {}
              /\ scalers' = {}
              /\ tidx' = 1
              /\ UNCHANGED <<s3_seen, s3_outcome, s3_reason, s3_cache>>
         [] o = "NoSuchKey" -> S3Exit(Return(None), "no_info", Unread)
         [] o = "error" -> S3Exit(S3Except, "error", Unread)
    /\ UNCHANGED <<today, sessionVars, local_cache, local_seen, local_outcome,
                   local_reason, resolve_outcome, viewVars>>

\* get_object and joblib.load of {target}_rf.joblib.
S3GetModel(o) ==
    /\ pc = "s3_model"
    /\ LET t == Targets[tidx] IN
       CASE o = "ok" ->
              /\ models' = models \cup {t}
              /\ pc' = "s3_scaler"
              /\ UNCHANGED <<scalers, tidx, s3_seen, s3_outcome, s3_reason, s3_cache>>
         [] o = "NoSuchKey" ->
              S3Continue(models, scalers, [s3_seen EXCEPT ![t] = "no_model"])
         [] o = "error" -> S3Exit(S3Except, "error", Unread)
    /\ UNCHANGED <<today, sessionVars, local_cache, local_seen, local_outcome,
                   local_reason, resolve_outcome, viewVars>>

\* get_object and joblib.load of {target}_scaler.joblib.
S3GetScaler(o) ==
    /\ pc = "s3_scaler"
    /\ LET t == Targets[tidx] IN
       CASE o = "ok" ->
              S3Continue(models, scalers \cup {t}, [s3_seen EXCEPT ![t] = "both"])
         [] o = "NoSuchKey" ->
              S3Continue(models, scalers, [s3_seen EXCEPT ![t] = "no_scaler"])
         [] o = "error" -> S3Exit(S3Except, "error", Unread)
    /\ UNCHANGED <<today, sessionVars, local_cache, local_seen, local_outcome,
                   local_reason, resolve_outcome, viewVars>>

---------------------------------------------------------------------------
(* load_local_model *)

LoadOutcomes == {"ok", "error"}

LocalModelData(m, s, city) ==
    [models |-> m, scalers |-> s, model_info |-> "local_info", city |-> city]

\* The outer except of load_local_model.
LocalExceptReraises == Raise
LocalExcept == Return(None)

\* `if not models: return None` and the return of model_data.
LocalAfterLoop(m, s, city) ==
    IF m = {} THEN Return(None) ELSE Return(LocalModelData(m, s, city))

\* The file-existence test of one target.
LocalBothExist(m_exists, s_exists) == m_exists /\ s_exists

LocalSeen(m_exists, s_exists) ==
    CASE m_exists /\ s_exists -> "both"
      [] m_exists /\ ~s_exists -> "model_only"
      [] ~m_exists /\ s_exists -> "scaler_only"
      [] OTHER -> "neither"

\* load_local_model ends with `out`; st.cache_data stores a returned value.
LocalExit(out, reason, seen) ==
    /\ local_outcome' = out
    /\ local_reason' = reason
    /\ local_seen' = seen
    /\ local_cache' = IF out.kind = "return"
                      THEN [local_cache EXCEPT ![selected_city] = {out.value}]
                      ELSE local_cache
    /\ pc' = "local_done"

\* os.path.exists(model_dir).
LocalCheckDir(exists) ==
    /\ pc = "local_dir"
    /\ IF exists
       THEN /\ pc' = "local_info"
            /\ UNCHANGED <<local_outcome, local_reason, local_seen, local_cache>>
       ELSE LocalExit(Return(None), "no_dir", Unread)
    /\ UNCHANGED <<today, sessionVars, s3_cache, models, scalers, tidx, s3_seen,
                   s3_outcome, s3_reason, resolve_outcome, viewVars>>

\* os.path.exists(info_file), open and json.load.
LocalLoadInfo(o) ==
    /\ pc = "local_info"
    /\ CASE o = "ok" ->
              /\ pc' = "local_target"
              /\ models' = {}
              /\ scalers' = {}
              /\ tidx' = 1
              /\ UNCHANGED <<local_outcome, local_reason, local_seen, local_cache>>
         [] o = "NoSuchKey" ->
              /\ LocalExit(Return(None), "no_info", Unread)
              /\ UNCHANGED <<models, scalers, tidx>>
         [] o = "error" ->
              /\ LocalExit(LocalExcept, "error", Unread)
              /\ UNCHANGED <<models, scalers, tidx>>
    /\ UNCHANGED <<today, sessionVars, s3_cache, s3_seen, s3_outcome, s3_reason,
                   resolve_outcome, viewVars>>

\* One pass of the loop: the existence test and the two joblib.load calls.
LocalLoadTarget(m_exists, s_exists, load) ==
    /\ pc = "local_target"
    /\ LET t == Targets[tidx]
           both == LocalBothExist(m_exists, s_exists)
           seen == [local_seen EXCEPT ![t] = LocalSeen(m_exists, s_exists)]
           m == IF both THEN models \cup {t} ELSE models
           s == IF both THEN scalers \cup {t} ELSE scalers
       IN IF both /\ load = "error"
          THEN /\ LocalExit(LocalExcept, "error", Unread)
               /\ UNCHANGED <<models, scalers, tidx>>
          ELSE IF tidx < Len(Targets)
          THEN /\ models' = m
               /\ scalers' = s
               /\ tidx' = tidx + 1
               /\ local_seen' = seen
               /\ pc' = "local_target"
               /\ UNCHANGED <<local_outcome, local_reason, local_cache>>
          ELSE /\ models' = m
               /\ scalers' = s
               /\ LocalExit(LocalAfterLoop(m, s, selected_city),
                            IF m = {} THEN "no_models" ELSE "bundle", seen)
               /\ UNCHANGED tidx
    /\ UNCHANGED <<today, sessionVars, s3_cache, s3_seen, s3_outcome, s3_reason,
                   resolve_outcome, viewVars>>

---------------------------------------------------------------------------
(* load_location_model *)

\* The except of load_location_model.
LoadLocationExcept == Return(None)

\* `if s3_model_data: return s3_model_data`.
UseS3Never(out) == FALSE
UseS3(out) == out.kind = "return" /\ Truthy(out.value)

\* After load_s3_models: return its bundle, or call load_local_model (whose
\* st.cache_data wrapper answers from the cache when it holds the city).
AfterS3 ==
    /\ pc = "s3_done"
    /\ CASE s3_outcome.kind = "raise" ->
              /\ resolve_outcome' = LoadLocationExcept
              /\ pc' = "resolved"
              /\ UNCHANGED <<local_outcome, local_reason>>
         [] UseS3(s3_outcome) ->
              /\ resolve_outcome' = Return(s3_outcome.value)
              /\ pc' = "resolved"
              /\ UNCHANGED <<local_outcome, local_reason>>
         [] OTHER ->
              IF local_cache[selected_city] # {}
              THEN /\ local_outcome' =
                        Return(CHOOSE v \in local_cache[selected_city] : TRUE)
                   /\ local_reason' = "cached"
                   /\ pc' = "local_done"
                   /\ UNCHANGED resolve_outcome
              ELSE /\ pc' = "local_dir"
                   /\ UNCHANGED <<local_outcome, local_reason, resolve_outcome>>
    /\ UNCHANGED <<today, sessionVars, cacheVars, models, scalers, tidx, s3_seen,
                   local_seen, s3_outcome, s3_reason, viewVars>>

\* After load_local_model: return its bundle, or None.
AfterLocal ==
    /\ pc = "local_done"
    /\ resolve_outcome' =
          CASE local_outcome.kind = "raise" -> LoadLocationExcept
            [] Truthy(local_outcome.value) -> Return(local_outcome.value)
            [] OTHER -> Return(None)
    /\ pc' = "resolved"
    /\ UNCHANGED <<today, sessionVars, cacheVars, models, scalers, tidx, s3_seen,
                   local_seen, s3_outcome, s3_reason, local_outcome, local_reason,
                   viewVars>>

---------------------------------------------------------------------------
(* main: the model-loading step *)

\* The reload condition of main.
NeedsLoadModelOnly(city) == current_model = None
NeedsLoad(city) == current_model = None \/ current_city # city

\* The sidebar's selection and the start of the model-loading step.
Main(city) ==
    /\ pc = "main"
    /\ selected_city' = city
    /\ IF NeedsLoad(city)
       THEN /\ current_model' = None
            /\ current_city' = city
            /\ IF s3_cache[city] # {}
               THEN /\ s3_outcome' = Return(CHOOSE v \in s3_cache[city] : TRUE)
                    /\ s3_reason' = "cached"
                    /\ pc' = "s3_done"
               ELSE /\ pc' = "s3_info"
                    /\ UNCHANGED <<s3_outcome, s3_reason>>
       ELSE /\ pc' = "page"
            /\ UNCHANGED <<current_model, current_city, s3_outcome, s3_reason>>
    /\ UNCHANGED <<today, cacheVars, models, scalers, tidx, s3_seen, local_seen,
                   local_outcome, local_reason, resolve_outcome, viewVars>>

\* `st.session_state.current_model = load_location_model(selected_city)` inside
\* main's try/except; the locals of the resolution are gone afterwards.
MainStoreModel ==
    /\ pc = "resolved"
    /\ current_model' = IF resolve_outcome.kind = "raise" THEN None
                        ELSE resolve_outcome.value
    /\ pc' = "page"
    /\ models' = {}
    /\ scalers' = {}
    /\ tidx' = 0
    /\ s3_seen' = Unread
    /\ local_seen' = Unread
    /\ s3_outcome' = NotCalled
    /\ s3_reason' = "not_called"
    /\ local_outcome' = NotCalled
    /\ local_reason' = "not_called"
    /\ resolve_outcome' = NotCalled
    /\ UNCHANGED <<today, selected_city, current_city, cacheVars, viewVars>>

---------------------------------------------------------------------------
(* Dates: datetime, timedelta, strftime, strptime *)

IsLeap(y) == (y % 4 = 0 /\ y % 100 # 0) \/ y % 400 = 0

DaysInMonth(y, m) ==
    CASE m \in {1, 3, 5, 7, 8, 10, 12} -> 31
      [] m \in {4, 6, 9, 11} -> 30
      [] OTHER -> IF IsLeap(y) THEN 29 ELSE 28

NextDay(dt) ==
    IF dt.d < DaysInMonth(dt.y, dt.m) THEN [dt EXCEPT !.d = dt.d + 1]
    ELSE IF dt.m < 12 THEN [y |-> dt.y, m |-> dt.m + 1, d |-> 1]
    ELSE [y |-> dt.y + 1, m |-> 1, d |-> 1]

\* Days before month m of year y, and dt.timetuple().tm_yday.
DaysBeforeMonth(y, m) ==
    <<0, 31, 59, 90, 120, 151, 181, 212, 243, 273, 304, 334>>[m]
        + (IF m > 2 /\ IsLeap(y) THEN 1 ELSE 0)
DayOfYear(dt) == DaysBeforeMonth(dt.y, dt.m) + dt.d

\* date.toordinal(): day 1 is 0001-01-01.
ToOrdinal(dt) ==
    LET p == dt.y - 1
    IN 365 * p + (p \div 4) - (p \div 100) + (p \div 400) + DayOfYear(dt)

\* date.fromordinal(n): the year by the 400-, 100-, 4- and 1-year cycles, then
\* the month by the estimate (n + 50) >> 5, corrected when it overshoots.
FromOrdinal(n) ==
    LET n0 == n - 1
        n400 == n0 \div 146097
        r400 == n0 % 146097
        n100 == r400 \div 36524
        r100 == r400 % 36524
        n4 == r100 \div 1461
        r4 == r100 % 1461
        n1 == r4 \div 365
        r1 == r4 % 365
        year == n400 * 400 + 1 + n100 * 100 + n4 * 4 + n1
        guess == (r1 + 50) \div 32
        month == IF DaysBeforeMonth(year, guess) > r1 THEN guess - 1 ELSE guess
    IN IF n1 = 4 \/ n100 = 4
       THEN [y |-> year - 1, m |-> 12, d |-> 31]
       ELSE [y |-> year, m |-> month, d |-> r1 - DaysBeforeMonth(year, month) + 1]

\* dt + timedelta(days=n)
AddDays(dt, n) == FromOrdinal(ToOrdinal(dt) + n)

\* strftime('%Y-%m-%d') and strptime(.., '%Y-%m-%d'): the text holds the three
\* fields, year first.
Strftime(dt) == <<dt.y, dt.m, dt.d>>
Strptime(s) == [y |-> s[1], m |-> s[2], d |-> s[3]]

---------------------------------------------------------------------------
(* Arithmetic *)

Max(a, b) == IF a >= b THEN a ELSE b
Min(a, b) == IF a <= b THEN a ELSE b

\* np.clip(x, lo, hi)
ClipUpperOnly(x, lo, hi) == Min(x, hi)
ClipLowerOnly(x, lo, hi) == Max(x, lo)
Clip(x, lo, hi) == Min(Max(x, lo), hi)

\* round(x, 1): thousandths to tenths, ties to the even tenth.
Round1(x) ==
    LET q == x \div 100
        r == x % 100
    IN IF r < 50 THEN q
       ELSE IF r > 50 THEN q + 1
       ELSE IF q % 2 = 0 THEN q ELSE q + 1

---------------------------------------------------------------------------
(* get_city_climate_info *)

\* The entries of climate_data for the modelled cities, and "default".  The
\* baselines are in thousandths, latitude and longitude in ten-thousandths of
\* a degree.
ClimateData ==
    [new_delhi |-> [avg_temp |-> 25000, avg_humidity |-> 65000, avg_pressure |-> 1013250,
                    wind_speed |-> 5000, cloud_cover |-> 40000, visibility |-> 10000,
                    wind_direction |-> 180000, latitude |-> 286139, longitude |-> 772090,
                    climate_type |-> "Tropical Monsoon"],
     mumbai    |-> [avg_temp |-> 27000, avg_humidity |-> 75000, avg_pressure |-> 1012000,
                    wind_speed |-> 8000, cloud_cover |-> 60000, visibility |-> 8000,
                    wind_direction |-> 225000, latitude |-> 190760, longitude |-> 728777,
                    climate_type |-> "Tropical Wet and Dry"],
     bangalore |-> [avg_temp |-> 23000, avg_humidity |-> 70000, avg_pressure |-> 1014000,
                    wind_speed |-> 6000, cloud_cover |-> 50000, visibility |-> 12000,
                    wind_direction |-> 270000, latitude |-> 129716, longitude |-> 775946,
                    climate_type |-> "Temperate"],
     jaipur    |-> [avg_temp |-> 25500, avg_humidity |-> 50000, avg_pressure |-> 1013000,
                    wind_speed |-> 7000, cloud_cover |-> 30000, visibility |-> 15000,
                    wind_direction |-> 240000, latitude |-> 269124, longitude |-> 757873,
                    climate_type |-> "Semi-arid"],
     default   |-> [avg_temp |-> 25000, avg_humidity |-> 65000, avg_pressure |-> 1013250,
                    wind_speed |-> 5000, cloud_cover |-> 40000, visibility |-> 10000,
                    wind_direction |-> 180000, latitude |-> 286139, longitude |-> 772090,
                    climate_type |-> "Tropical Monsoon"]]

\* climate_data.get(city, climate_data['default'])
get_city_climate_info_unclassified(city) ==
    IF city \in DOMAIN ClimateData THEN ClimateData[city]
    ELSE [ClimateData["default"] EXCEPT !.climate_type = "Unknown"]
get_city_climate_info(city) ==
    IF city \in DOMAIN ClimateData THEN ClimateData[city] ELSE ClimateData["default"]

\* `word in climate_type.lower()` for the climate types of the table.
InLowerCaseSensitive(word, climate_type) == climate_type = "Semi-arid" /\ word = "arid"
InLower(word, climate_type) ==
    CASE climate_type = "Tropical Monsoon" -> word = "tropical"
      [] climate_type = "Tropical Wet and Dry" -> word = "tropical"
      [] climate_type = "Semi-arid" -> word = "arid"
      [] climate_type = "Temperate" -> word = "temperate"
      [] OTHER -> FALSE

---------------------------------------------------------------------------
(* predict_weather_location *)

\* What a loaded regressor does with a scaled feature vector: it returns a
\* value below, inside or above the physical range, or raises.
RegressorValues(t) ==
    CASE t = "temperature" -> {"low", "high"}
      [] t = "humidity" -> {"low", "mid", "high"}
      [] t = "pressure" -> {"low", "mid"}
      [] OTHER -> {"low", "high"}

RegressorBase(beh, t) ==
    CASE t = "temperature" ->
           (CASE beh = "low" -> -5250 [] beh = "mid" -> 31449 [] OTHER -> 46750)
      [] t = "humidity" ->
           (CASE beh = "low" -> -12500 [] beh = "mid" -> 55550 [] OTHER -> 130050)
      [] t = "pressure" ->
           (CASE beh = "low" -> -3000 [] beh = "mid" -> 1009951 [] OTHER -> 1055500)
      [] OTHER ->
           (CASE beh = "low" -> -4449 [] beh = "mid" -> 12050 [] OTHER -> 30000)

\* The regressors of one prediction run: a behaviour for each covered target,
\* or regressors that raise.
RegScenarios(md) ==
    IF md = None THEN {<<>>}
    ELSE {r \in [Covered(md) -> {"low", "mid", "high"}] :
              \A t \in Covered(md) : r[t] \in RegressorValues(t)}
         \cup {[t \in Covered(md) |-> "raises"]}

BehaviourOf(reg, t) == IF t \in DOMAIN reg THEN reg[t] ELSE "mid"

\* models[..].predict(scalers[..].transform([features]))[0]; the features of
\* create_weather_features depend on the date.
RawPrediction(reg, t, date_obj) ==
    RegressorBase(BehaviourOf(reg, t), t) + 125 * (date_obj.d % 4)

\* current_date + timedelta(days=i)
FutureDateFromTomorrow(now, i) == AddDays(now, i + 1)
FutureDate(now, i) == AddDays(now, i)

\* `'{t}_rf' in models and t in scalers`
TargetPresentModelOnly(md, t) == t \in md.models
TargetPresent(md, t) == t \in md.models /\ t \in md.scalers

\* The post-processing of each field.
TemperatureField(raw) == Round1(raw)
HumidityFieldNoCeiling(raw) == Round1(Max(0, raw))
HumidityField(raw) == Round1(Max(0, Min(100000, raw)))
PressureField(raw) == Round1(raw)
WindSpeedField(raw) == Round1(Max(0, raw))

DayPrediction(md, reg, date_str) ==
    LET date_obj == Strptime(date_str)
        raw(t) == RawPrediction(reg, t, date_obj)
    IN [date |-> date_str,
        temperature |-> IF TargetPresent(md, "temperature")
                        THEN TemperatureField(raw("temperature")) ELSE 0,
        humidity |-> IF TargetPresent(md, "humidity")
                     THEN HumidityField(raw("humidity")) ELSE 0,
        pressure |-> IF TargetPresent(md, "pressure")
                     THEN PressureField(raw("pressure")) ELSE 0,
        wind_speed |-> IF TargetPresent(md, "wind_speed")
                       THEN WindSpeedField(raw("wind_speed")) ELSE 0]

List(s) == [list |-> s]

\* A scaler or regressor of a target that is used raises.
PredictionNeverRaises(md, days, reg) == FALSE
PredictionRaises(md, days, reg) ==
    /\ days > 0
    /\ \E t \in TargetSet : TargetPresent(md, t) /\ BehaviourOf(reg, t) = "raises"

predict_weather_location(md, days, reg, now) ==
    IF md = None THEN None
    ELSE IF md.models = {} \/ md.scalers = {} THEN None
    ELSE IF PredictionRaises(md, days, reg) THEN None
    ELSE List([i \in 1..days |->
                  DayPrediction(md, reg, Strftime(FutureDate(now, i - 1)))])

---------------------------------------------------------------------------
(* generate_realistic_weather_fallback *)

\* 1000 * sin(2 * pi * day_of_year / 365.25), rounded, for day_of_year 1..366.
SinTable == <<
    17, 34, 52, 69, 86, 103, 120, 137, 154, 171, 188, 205,
    222, 239, 255, 272, 288, 305, 321, 337, 353, 369, 385, 401,
    417, 432, 448, 463, 478, 493, 508, 523, 538, 552, 566, 580,
    594, 608, 622, 635, 648, 661, 674, 687, 699, 711, 723, 735,
    747, 758, 769, 780, 791, 801, 811, 821, 831, 840, 849, 858,
    867, 876, 884, 892, 899, 907, 914, 921, 927, 934, 940, 945,
    951, 956, 961, 966, 970, 974, 978, 981, 984, 987, 990, 992,
    994, 996, 997, 998, 999, 1000, 1000, 1000, 1000, 999, 998, 997,
    995, 993, 991, 989, 986, 983, 980, 976, 972, 968, 964, 959,
    954, 949, 943, 937, 931, 925, 918, 911, 904, 896, 889, 881,
    872, 864, 855, 846, 837, 827, 817, 807, 797, 787, 776, 765,
    754, 742, 731, 719, 707, 694, 682, 669, 656, 643, 630, 617,
    603, 589, 575, 561, 547, 532, 518, 503, 488, 473, 458, 442,
    427, 411, 395, 379, 363, 347, 331, 315, 299, 282, 266, 249,
    232, 215, 199, 182, 165, 148, 131, 114, 97, 79, 62, 45,
    28, 11, -6, -24, -41, -58, -75, -92, -109, -127, -144, -161,
    -178, -194, -211, -228, -245, -261, -278, -294, -311, -327, -343, -359,
    -375, -391, -407, -423, -438, -454, -469, -484, -499, -514, -529, -543,
    -557, -572, -586, -600, -613, -627, -640, -653, -666, -679, -691, -704,
    -716, -728, -739, -751, -762, -773, -784, -794, -805, -815, -825, -834,
    -844, -853, -862, -870, -879, -887, -895, -902, -909, -916, -923, -930,
    -936, -942, -947, -953, -958, -963, -967, -971, -975, -979, -982, -985,
    -988, -991, -993, -995, -996, -998, -999, -999, -1000, -1000, -1000, -999,
    -999, -998, -996, -995, -993, -990, -988, -985, -982, -979, -975, -971,
    -967, -962, -957, -952, -947, -941, -935, -929, -922, -916, -908, -901,
    -894, -886, -878, -869, -861, -852, -843, -833, -824, -814, -804, -793,
    -783, -772, -761, -749, -738, -726, -714, -702, -690, -677, -664, -652,
    -638, -625, -612, -598, -584, -570, -556, -541, -527, -512, -497, -482,
    -467, -452, -436, -421, -405, -389, -373, -357, -341, -325, -309, -292,
    -276, -259, -243, -226, -209, -192, -175, -158, -141, -124, -107, -90,
    -73, -56, -39, -22, -4, 13
>>

seasonal_factor(date) == SinTable[DayOfYear(date)]

\* The draws of np.random.normal, as multiples of the standard deviation.
NoiseZ == {-12, 0, 12}
NoiseScenarios == [t : NoiseZ, h : NoiseZ, p : NoiseZ, w : NoiseZ]
ZeroNoise == [t |-> 0, h |-> 0, p |-> 0, w |-> 0]

SyntheticDay(city, date, noise) ==
    LET climate_info == get_city_climate_info(city)
        sf == seasonal_factor(date)
        temp0 == climate_info.avg_temp + 8 * sf + 2000 * noise.t
        hum0 == climate_info.avg_humidity - 10 * sf + 5000 * noise.h
        daily_pressure == climate_info.avg_pressure + 3000 * noise.p
        daily_wind == climate_info.wind_speed + 2000 * noise.w
        ct == climate_info.climate_type
        daily_temp ==
            CASE InLower("tropical", ct) -> Clip(temp0, 22000, 38000)
              [] InLower("arid", ct) -> Clip(temp0, 25000, 45000)
              [] InLower("temperate", ct) -> Clip(temp0, 15000, 35000)
              [] OTHER -> temp0
        daily_humidity ==
            CASE InLower("tropical", ct) -> Max(hum0, 60000)
              [] InLower("arid", ct) -> Min(hum0, 50000)
              [] InLower("temperate", ct) -> Clip(hum0, 40000, 80000)
              [] OTHER -> hum0
    IN [date |-> Strftime(date),
        temperature |-> Round1(Clip(daily_temp, 15000, 45000)),
        humidity |-> Round1(Clip(daily_humidity, 20000, 95000)),
        pressure |-> Round1(Clip(daily_pressure, 980000, 1020000)),
        wind_speed |-> Round1(Clip(daily_wind, 0, 20000))]

generate_realistic_weather_fallback(city, days, noise, now) ==
    List([i \in 1..days |-> SyntheticDay(city, AddDays(now, i - 1), noise)])

---------------------------------------------------------------------------
(* show_enhanced_disaster_risk: the risk assessment *)

\* The thresholds chosen by climate type, in tenths.
RiskThresholdsOneTable(climate_type) ==
    [heatwave_high |-> 380, heatwave_medium |-> 330, drought_low |-> 600,
     drought_medium |-> 500, flood_high |-> 900, flood_medium |-> 800,
     storm_high |-> 250, storm_medium |-> 180]
RiskThresholds(climate_type) ==
    CASE InLower("tropical", climate_type) ->
           [heatwave_high |-> 380, heatwave_medium |-> 330, drought_low |-> 600,
            drought_medium |-> 500, flood_high |-> 900, flood_medium |-> 800,
            storm_high |-> 250, storm_medium |-> 180]
      [] InLower("temperate", climate_type) ->
           [heatwave_high |-> 400, heatwave_medium |-> 350, drought_low |-> 450,
            drought_medium |-> 350, flood_high |-> 850, flood_medium |-> 750,
            storm_high |-> 200, storm_medium |-> 150]
      [] InLower("arid", climate_type) ->
           [heatwave_high |-> 420, heatwave_medium |-> 370, drought_low |-> 300,
            drought_medium |-> 200, flood_high |-> 800, flood_medium |-> 700,
            storm_high |-> 220, storm_medium |-> 160]
      [] OTHER ->
           [heatwave_high |-> 400, heatwave_medium |-> 350, drought_low |-> 400,
            drought_medium |-> 300, flood_high |-> 850, flood_medium |-> 750,
            storm_high |-> 200, storm_medium |-> 150]

RECURSIVE SumField(_, _)
SumField(s, f) == IF s = <<>> THEN 0 ELSE Head(s)[f] + SumField(Tail(s), f)

MaxField(s, f) ==
    CHOOSE v \in {s[i][f] : i \in 1..Len(s)} : \A j \in 1..Len(s) : s[j][f] <= v

\* historical_weather[-7:]
Last7First(s) == IF Len(s) <= 7 THEN s ELSE SubSeq(s, 1, 7)
Last7(s) == IF Len(s) <= 7 THEN s ELSE SubSeq(s, Len(s) - 6, Len(s))

\* The four if/elif/else chains.  An average is compared as the sum against
\* the threshold times len(recent_data); for readings that are multiples of
\* 0.5 the float sum and quotient of the source are exact, so this is the
\* comparison the source makes.

\* Heatwave risk.
HeatwaveLevelMediumFirst(recent_data, th) ==
    LET n == Len(recent_data)
        sum_temp == SumField(recent_data, "temperature")
        max_temp_7d == MaxField(recent_data, "temperature")
    IN IF max_temp_7d > th.heatwave_medium \/ sum_temp > (th.heatwave_medium - 20) * n
       THEN "MEDIUM"
       ELSE IF max_temp_7d > th.heatwave_high \/ sum_temp > (th.heatwave_high - 20) * n
       THEN "HIGH" ELSE "LOW"
HeatwaveLevel(recent_data, th) ==
    LET n == Len(recent_data)
        sum_temp == SumField(recent_data, "temperature")
        max_temp_7d == MaxField(recent_data, "temperature")
    IN IF max_temp_7d > th.heatwave_high \/ sum_temp > (th.heatwave_high - 20) * n
       THEN "HIGH"
       ELSE IF max_temp_7d > th.heatwave_medium \/ sum_temp > (th.heatwave_medium - 20) * n
       THEN "MEDIUM" ELSE "LOW"

\* Drought risk.
DroughtLevelMediumFirst(recent_data, th) ==
    LET n == Len(recent_data)
        sum_humidity == SumField(recent_data, "humidity")
    IN IF sum_humidity < th.drought_medium * n THEN "MEDIUM"
       ELSE IF sum_humidity < th.drought_low * n THEN "HIGH" ELSE "LOW"
DroughtLevelInclusive(recent_data, th) ==
    LET n == Len(recent_data)
        sum_humidity == SumField(recent_data, "humidity")
    IN IF sum_humidity <= th.drought_low * n THEN "HIGH"
       ELSE IF sum_humidity <= th.drought_medium * n THEN "MEDIUM" ELSE "LOW"
DroughtLevel(recent_data, th) ==
    LET n == Len(recent_data)
        sum_humidity == SumField(recent_data, "humidity")
    IN IF sum_humidity < th.drought_low * n THEN "HIGH"
       ELSE IF sum_humidity < th.drought_medium * n THEN "MEDIUM" ELSE "LOW"

\* Storm risk.
StormLevelByAverage(recent_data, th) ==
    LET n == Len(recent_data)
        sum_wind == SumField(recent_data, "wind_speed")
    IN IF sum_wind > th.storm_high * n THEN "HIGH"
       ELSE IF sum_wind > th.storm_medium * n THEN "MEDIUM" ELSE "LOW"
StormLevel(recent_data, th) ==
    LET max_wind_7d == MaxField(recent_data, "wind_speed")
    IN IF max_wind_7d > th.storm_high THEN "HIGH"
       ELSE IF max_wind_7d > th.storm_medium THEN "MEDIUM" ELSE "LOW"

\* Flood risk.
FloodLevelInclusive(recent_data, th) ==
    LET n == Len(recent_data)
        sum_humidity == SumField(recent_data, "humidity")
    IN IF sum_humidity >= th.flood_high * n THEN "HIGH"
       ELSE IF sum_humidity >= th.flood_medium * n THEN "MEDIUM" ELSE "LOW"
FloodLevel(recent_data, th) ==
    LET n == Len(recent_data)
        sum_humidity == SumField(recent_data, "humidity")
    IN IF sum_humidity > th.flood_high * n THEN "HIGH"
       ELSE IF sum_humidity > th.flood_medium * n THEN "MEDIUM" ELSE "LOW"

RiskAssessment(recent_data, city) ==
    LET th == RiskThresholds(get_city_climate_info(city).climate_type)
    IN [heatwave |-> HeatwaveLevel(recent_data, th),
        drought |-> DroughtLevel(recent_data, th),
        storm |-> StormLevel(recent_data, th),
        flood |-> FloodLevel(recent_data, th)]

---------------------------------------------------------------------------
(* The views *)

\* `not forecast_data`: None and the empty list are falsy.
Falsy(result) == result = None \/ result.list = <<>>

NoiseChoices(md) == IF md = None THEN NoiseScenarios ELSE {ZeroNoise}

\* `if st.session_state.current_model is not None`, as each view tests it.
UseModelNever(view) == FALSE
UseModel(view) == current_model # None

\* The forecast call of a view: model prediction or the synthetic generator.
ViewForecast(view, city, days, reg, noise) ==
    IF UseModel(view)
    THEN predict_weather_location(current_model, days, reg, today)
    ELSE generate_realistic_weather_fallback(city, days, noise, today)

ViewOrigin(view) == IF UseModel(view) THEN "model" ELSE "synthetic"

ViewArgs(view, city, days, reg, noise) ==
    IF UseModel(view)
    THEN [city |-> current_model.city, days |-> days, reg |-> reg, noise |-> ZeroNoise]
    ELSE [city |-> city, days |-> days, reg |-> <<>>, noise |-> noise]

NoArgs == [city |-> "none", days |-> 0, reg |-> <<>>, noise |-> ZeroNoise]

\* The dashboard predicts only when a model is loaded; it has no fallback.
show_enhanced_dashboard(reg) ==
    /\ pc = "page"
    /\ IF current_model # None
       THEN LET current_weather == predict_weather_location(current_model, 1, reg, today)
                historical_weather == predict_weather_location(current_model, 30, reg, today)
            IN /\ forecast_data' = historical_weather
               /\ view_error' = Falsy(current_weather)
               /\ origin' = "model"
               /\ call_args' = [city |-> current_model.city, days |-> 30, reg |-> reg,
                                noise |-> ZeroNoise]
       ELSE /\ forecast_data' = None
            /\ view_error' = FALSE
            /\ origin' = "none"
            /\ call_args' = NoArgs
    /\ page' = "dashboard"
    /\ risks' = None
    /\ pc' = "rendered"
    /\ UNCHANGED <<today, sessionVars, cacheVars, resolveVars>>

\* The selectbox of forecast periods.
ForecastPeriods == {5, 7, 10, 14}

show_enhanced_forecast(days, reg, noise) ==
    /\ pc = "page"
    /\ days \in ForecastPeriods
    /\ LET result == ViewForecast("forecast", selected_city, days, reg, noise) IN
       /\ forecast_data' = result
       /\ view_error' = Falsy(result)
    /\ page' = "forecast"
    /\ origin' = ViewOrigin("forecast")
    /\ call_args' = ViewArgs("forecast", selected_city, days, reg, noise)
    /\ risks' = None
    /\ pc' = "rendered"
    /\ UNCHANGED <<today, sessionVars, cacheVars, resolveVars>>

show_enhanced_disaster_risk(reg, noise) ==
    /\ pc = "page"
    /\ LET current_weather == ViewForecast("risk", selected_city, 1, reg, noise)
           historical_weather == ViewForecast("risk", selected_city, 30, reg, noise)
           failed == Falsy(current_weather) \/ Falsy(historical_weather)
       IN /\ forecast_data' = historical_weather
          /\ view_error' = failed
          /\ risks' = IF failed THEN None
                      ELSE RiskAssessment(Last7(historical_weather.list), selected_city)
    /\ page' = "risk"
    /\ origin' = ViewOrigin("risk")
    /\ call_args' = ViewArgs("risk", selected_city, 30, reg, noise)
    /\ pc' = "rendered"
    /\ UNCHANGED <<today, sessionVars, cacheVars, resolveVars>>

\* days_map of the analysis periods.
TrendPeriods == {30, 90, 180, 365}

show_enhanced_climate_trends(days, reg, noise) ==
    /\ pc = "page"
    /\ days \in TrendPeriods
    /\ days <= MaxHorizon
    /\ LET result == ViewForecast("trends", selected_city, days, reg, noise) IN
       /\ forecast_data' = result
       /\ view_error' = Falsy(result)
    /\ page' = "trends"
    /\ origin' = ViewOrigin("trends")
    /\ call_args' = ViewArgs("trends", selected_city, days, reg, noise)
    /\ risks' = None
    /\ pc' = "rendered"
    /\ UNCHANGED <<today, sessionVars, cacheVars, resolveVars>>

---------------------------------------------------------------------------
(* Specification *)

TodayChoices == {[y |-> 2024, m |-> 2, d |-> 20], [y |-> 2025, m |-> 12, d |-> 15]}

Init ==
    /\ pc = "main"
    /\ today \in TodayChoices
    /\ selected_city = "new_delhi"
    /\ current_model = None
    /\ current_city = "new_delhi"
    /\ s3_cache = [c \in Cities |-> {}]
    /\ local_cache = [c \in Cities |-> {}]
    /\ models = {}
    /\ scalers = {}
    /\ tidx = 0
    /\ s3_seen = Unread
    /\ local_seen = Unread
    /\ s3_outcome = NotCalled
    /\ s3_reason = "not_called"
    /\ local_outcome = NotCalled
    /\ local_reason = "not_called"
    /\ resolve_outcome = NotCalled
    /\ page = "none"
    /\ origin = "none"
    /\ call_args = NoArgs
    /\ forecast_data = None
    /\ risks = None
    /\ view_error = FALSE

Next ==
    \/ \E city \in Cities : Main(city)
    \/ \E o \in FetchOutcomes : S3GetInfo(o)
    \/ \E o \in FetchOutcomes : S3GetModel(o)
    \/ \E o \in FetchOutcomes : S3GetScaler(o)
    \/ AfterS3
    \/ \E e \in BOOLEAN : LocalCheckDir(e)
    \/ \E o \in FetchOutcomes : LocalLoadInfo(o)
    \/ \E me \in BOOLEAN, se \in BOOLEAN, l \in LoadOutcomes : LocalLoadTarget(me, se, l)
    \/ AfterLocal
    \/ MainStoreModel
    \/ \E reg \in RegScenarios(current_model) : show_enhanced_dashboard(reg)
    \/ \E d \in ForecastPeriods, reg \in RegScenarios(current_model),
          noise \in NoiseChoices(current_model) :
            show_enhanced_forecast(d, reg, noise)
    \/ \E reg \in RegScenarios(current_model), noise \in NoiseChoices(current_model) :
            show_enhanced_disaster_risk(reg, noise)
    \/ \E d \in TrendPeriods, reg \in RegScenarios(current_model),
          noise \in NoiseChoices(current_model) :
            show_enhanced_climate_trends(d, reg, noise)

Spec == Init /\ [][Next]_vars

---------------------------------------------------------------------------
(* Claims *)

Lst == forecast_data.list

\* The post-processed prediction of target t for the entry dated date_str.
ExpectedField(t, date_str) ==
    LET raw == RawPrediction(call_args.reg, t, Strptime(date_str))
    IN CASE t = "temperature" -> TemperatureField(raw)
         [] t = "humidity" -> HumidityField(raw)
         [] t = "pressure" -> PressureField(raw)
         [] OTHER -> WindSpeedField(raw)

\* C1: load_location_model never returns a bundle without a target that has
\* both its regressor and its scaler: the result is None or a bundle with at
\* least one such target.
C1_ResolveNeverReturnsEmptyTargets ==
    pc = "resolved" =>
        \/ resolve_outcome.value = None
        \/ Covered(resolve_outcome.value) # {}

\* C2: in the bundle load_s3_models returns, a target whose regressor or scaler
\* was not found has neither a regressor entry nor a scaler entry, and a target
\* whose two objects were fetched has both.
C2_RemoteTargetNeedsBoth ==
    (pc = "s3_done" /\ s3_reason = "bundle") =>
        \A t \in TargetSet :
            /\ s3_seen[t] \in {"no_model", "no_scaler"} =>
                   t \notin s3_outcome.value.models /\ t \notin s3_outcome.value.scalers
            /\ s3_seen[t] = "both" =>
                   t \in s3_outcome.value.models /\ t \in s3_outcome.value.scalers

\* C3: the remote tier runs first; the local tier is consulted only after the
\* remote tier returned no bundle, and a remote bundle is returned as it is,
\* with the local tier untouched.
C3_RemoteFirstShortCircuit ==
    /\ pc \in {"s3_info", "s3_model", "s3_scaler", "s3_done"} =>
           local_reason = "not_called" /\ local_seen = Unread
    /\ (pc \in {"local_dir", "local_info", "local_target", "local_done"}
        \/ local_reason # "not_called") => s3_outcome = Return(None)
    /\ (pc = "resolved" /\ s3_outcome.kind = "return" /\ s3_outcome.value # None) =>
           /\ resolve_outcome = Return(s3_outcome.value)
           /\ local_reason = "not_called"
           /\ local_seen = Unread

C3_Witness ==
    /\ pc = "resolved"
    /\ s3_reason = "bundle"
    /\ resolve_outcome = Return(s3_outcome.value)
    /\ local_reason = "not_called"

\* C4: when the remote tier has no metadata document or yields no usable
\* target, load_location_model consults the local tier and returns the local
\* bundle when there is one; it returns None only if neither tier yields a
\* usable target.
C4_FailoverToLocal ==
    pc = "resolved" =>
        LET remote_unusable ==
                \/ s3_reason \in {"no_info", "no_models"}
                \/ (s3_outcome.value # None /\ Covered(s3_outcome.value) = {})
        IN /\ remote_unusable =>
                  /\ local_reason # "not_called"
                  /\ local_reason = "bundle" => resolve_outcome = local_outcome
           /\ resolve_outcome.value = None =>
                  /\ s3_outcome.value = None
                  /\ local_outcome.value = None

\* C5: no tier raises and load_location_model does not raise: an error in the
\* remote tier is that tier's failure (the local tier is consulted and decides
\* the result), an error or a missing directory or metadata file in the local
\* tier gives None, and the call ends with a bundle or None.
C5_ResolveNeverRaises ==
    /\ s3_outcome.kind # "raise"
    /\ local_outcome.kind # "raise"
    /\ resolve_outcome.kind # "raise"
    /\ pc = "resolved" =>
           /\ resolve_outcome.kind = "return"
           /\ resolve_outcome.value = None \/ resolve_outcome.value.models # {}
    /\ (pc = "resolved" /\ s3_reason = "error") =>
           /\ local_reason # "not_called"
           /\ resolve_outcome = Return(local_outcome.value)
    /\ (pc = "resolved" /\ local_reason \in {"error", "no_dir", "no_info"}) =>
           resolve_outcome = Return(None)

C5_Witness ==
    /\ pc = "resolved"
    /\ s3_reason = "error"
    /\ local_reason = "error"
    /\ resolve_outcome = Return(None)

\* C6: in the forecast, disaster-risk and climate-trends views the forecast is
\* the synthetic generator's, for the selected city and the view's horizon,
\* when current_model is None, and predict_weather_location's on current_model
\* otherwise.
C6_ForecastDispatch ==
    page \in {"forecast", "risk", "trends"} =>
        /\ current_model = None =>
               /\ origin = "synthetic"
               /\ call_args.city = selected_city
               /\ forecast_data = generate_realistic_weather_fallback(
                                      selected_city, call_args.days, call_args.noise, today)
        /\ current_model # None =>
               /\ origin = "model"
               /\ forecast_data = predict_weather_location(
                                      current_model, call_args.days, call_args.reg, today)
        /\ page = "forecast" => call_args.days \in ForecastPeriods
        /\ page = "risk" => call_args.days = 30
        /\ page = "trends" => call_args.days \in TrendPeriods

C6_Witness ==
    /\ page = "risk"
    /\ current_model = None
    /\ origin = "synthetic"
    /\ risks # None

\* C7: a forecast that was returned has as many entries as the horizon asked
\* for, entry i is dated today + (i - 1) days, and each entry is dated the
\* calendar day after the entry before it; a horizon of 0 gives no entry.
C7_ForecastDates ==
    /\ (page # "none" /\ forecast_data # None) =>
           /\ Len(Lst) = call_args.days
           /\ \A i \in 1..Len(Lst) :
                  /\ Lst[i].date = Strftime(AddDays(today, i - 1))
                  /\ i = 1 => Strptime(Lst[i].date) = today
                  /\ i > 1 => Strptime(Lst[i].date) = NextDay(Strptime(Lst[i - 1].date))
    /\ pc = "page" =>
           /\ generate_realistic_weather_fallback(selected_city, 0, ZeroNoise, today)
                  = List(<<>>)
           /\ (current_model # None /\ current_model.scalers # {}) =>
                  predict_weather_location(current_model, 0, <<>>, today) = List(<<>>)

C7_Witness ==
    /\ page = "forecast"
    /\ origin = "model"
    /\ forecast_data # None
    /\ Len(Lst) = 14
    /\ Lst[1].date = <<2024, 2, 20>>
    /\ Lst[10].date = <<2024, 2, 29>>
    /\ Lst[14].date = <<2024, 3, 4>>

\* C8: in a model-based forecast every humidity is within [0, 100] and every
\* wind_speed is at least 0, and temperature and pressure are the rounded
\* regressor outputs, not clamped.
C8_ModelClamps ==
    (origin = "model" /\ forecast_data # None) =>
        \A i \in 1..Len(Lst) :
            /\ 0 <= Lst[i].humidity /\ Lst[i].humidity <= 1000
            /\ Lst[i].wind_speed >= 0
            /\ "temperature" \in Covered(current_model) =>
                   Lst[i].temperature =
                       Round1(RawPrediction(call_args.reg, "temperature",
                                            Strptime(Lst[i].date)))
            /\ "pressure" \in Covered(current_model) =>
                   Lst[i].pressure =
                       Round1(RawPrediction(call_args.reg, "pressure",
                                            Strptime(Lst[i].date)))

C8_Witness ==
    /\ origin = "model"
    /\ forecast_data # None
    /\ Covered(current_model) = TargetSet
    /\ call_args.reg = [temperature |-> "low", humidity |-> "high",
                        pressure |-> "low", wind_speed |-> "low"]
    /\ Lst[1].humidity = 1000
    /\ Lst[1].wind_speed = 0
    /\ Lst[1].temperature < 0
    /\ Lst[1].pressure < 0

\* C9: in a model-based forecast a field whose target lacks its regressor or
\* its scaler is 0 on every day, and a field whose target has both carries the
\* post-processed output of its regressor.
C9_AbsentTargetsZero ==
    (origin = "model" /\ forecast_data # None) =>
        \A i \in 1..Len(Lst) : \A t \in TargetSet :
            /\ t \notin Covered(current_model) => Lst[i][t] = 0
            /\ t \in Covered(current_model) => Lst[i][t] = ExpectedField(t, Lst[i].date)

C9_Witness ==
    /\ origin = "model"
    /\ forecast_data # None
    /\ Len(Lst) = 5
    /\ Covered(current_model) = {"temperature", "humidity"}
    /\ \A i \in 1..Len(Lst) :
           /\ Lst[i].pressure = 0
           /\ Lst[i].wind_speed = 0
           /\ Lst[i].temperature # 0
           /\ Lst[i].humidity # 0

\* C10: when the loaded bundle does not cover humidity, the risk assessment
\* does not rate drought HIGH from the humidity values that defaulted to 0.
C10_UncoveredHumidityNotRated ==
    (page = "risk" /\ origin = "model" /\ risks # None
     /\ "humidity" \notin Covered(current_model)) =>
        risks.drought # "HIGH"

---------------------------------------------------------------------------
(* The synthetic generator on its own: SpecSynth *)

\* Longest horizon of a generator call in SpecSynth.
SynthHorizon == 3

\* One key for each climate type of the table, and a key the table lacks.
SynthCities == {"new_delhi", "mumbai", "bangalore", "jaipur", "ludhiana"}

\* datetime.now() of the call: the turn of a leap year and the days where the
\* seasonal factor is near 0, +1 and -1.
SynthDates == {[y |-> 2024, m |-> 12, d |-> 30], [y |-> 2025, m |-> 4, d |-> 1],
               [y |-> 2025, m |-> 6, d |-> 30], [y |-> 2025, m |-> 10, d |-> 1]}

\* The draws of np.random.normal of a call, as multiples of the standard
\* deviation: small draws and draws far in both tails.
SynthNoise == [t : {-12, -3, -1, 0, 1, 3, 12}, h : {-12, -3, -1, 0, 1, 3, 12},
               p : {-12, -1, 0, 1, 12}, w : {-12, -1, 0, 1, 12}]

\* The state shared by the specifications of single functions: no model is
\* loaded and no page was rendered.
UnitIdle ==
    /\ current_model = None
    /\ current_city = "new_delhi"
    /\ s3_cache = [c \in Cities |-> {}]
    /\ local_cache = [c \in Cities |-> {}]
    /\ models = {}
    /\ scalers = {}
    /\ tidx = 0
    /\ s3_seen = Unread
    /\ local_seen = Unread
    /\ s3_outcome = NotCalled
    /\ s3_reason = "not_called"
    /\ local_outcome = NotCalled
    /\ local_reason = "not_called"
    /\ resolve_outcome = NotCalled
    /\ page = "none"
    /\ view_error = FALSE

unitFrame == <<current_model, current_city, cacheVars, resolveVars, page, view_error>>

InitSynth ==
    /\ pc = "synth_call"
    /\ today \in SynthDates
    /\ selected_city \in SynthCities
    /\ origin = "none"
    /\ call_args = NoArgs
    /\ forecast_data = None
    /\ risks = None
    /\ UnitIdle

\* generate_realistic_weather_fallback(city, days) with the draws `noise`.
SynthCall(days, noise) ==
    /\ pc = "synth_call"
    /\ forecast_data' = generate_realistic_weather_fallback(selected_city, days, noise, today)
    /\ call_args' = [city |-> selected_city, days |-> days, reg |-> <<>>, noise |-> noise]
    /\ origin' = "synthetic"
    /\ pc' = "synth_returned"
    /\ UNCHANGED <<today, selected_city, risks, unitFrame>>

NextSynth == \E days \in {1, SynthHorizon}, noise \in SynthNoise : SynthCall(days, noise)

SpecSynth == InitSynth /\ [][NextSynth]_vars

\* The climate type of the profile the call resolved.
CallClimate == get_city_climate_info(call_args.city).climate_type

\* C11: every day the synthetic generator returns lies within the global
\* clamps: temperature 15..45, humidity 20..95, pressure 980..1020 and
\* wind speed 0..20, for every location and every draw.
C11_SyntheticGlobalClamps ==
    pc = "synth_returned" =>
        /\ forecast_data # None
        /\ \A i \in 1..Len(Lst) :
              /\ Lst[i].temperature >= 150 /\ Lst[i].temperature <= 450
              /\ Lst[i].humidity >= 200 /\ Lst[i].humidity <= 950
              /\ Lst[i].pressure >= 9800 /\ Lst[i].pressure <= 10200
              /\ Lst[i].wind_speed >= 0 /\ Lst[i].wind_speed <= 200

\* Draws far in the tails end exactly on the clamps.
C11_Witness ==
    /\ pc = "synth_returned"
    /\ call_args.days = SynthHorizon
    /\ \E i \in 1..Len(Lst) :
          /\ Lst[i].humidity = 950
          /\ Lst[i].pressure = 9800
          /\ Lst[i].wind_speed = 200

\* C12: for a location whose profile is classified tropical, every synthetic
\* day has humidity >= 60 and temperature within 22..38, whatever the day and
\* the draws.
C12_TropicalSynthetic ==
    (pc = "synth_returned" /\ CallClimate \in {"Tropical Monsoon", "Tropical Wet and Dry"}) =>
        \A i \in 1..Len(Lst) :
            /\ Lst[i].humidity >= 600
            /\ Lst[i].temperature >= 220 /\ Lst[i].temperature <= 380

\* A tropical location with draws far in the lower tails: both floors bind.
C12_Witness ==
    /\ pc = "synth_returned"
    /\ CallClimate = "Tropical Wet and Dry"
    /\ call_args.noise.h = -12
    /\ call_args.noise.t = -12
    /\ \E i \in 1..Len(Lst) : Lst[i].humidity = 600 /\ Lst[i].temperature = 220

\* C13: the clamps of the climate type come after the noise and before the
\* global clamps: an arid or semi-arid location has humidity <= 50 and
\* temperature within 25..45 on every synthetic day, a temperate location has
\* temperature within 15..35 and humidity within 40..80.
C13_AridAndTemperateSynthetic ==
    pc = "synth_returned" =>
        /\ CallClimate = "Semi-arid" =>
              \A i \in 1..Len(Lst) :
                  /\ Lst[i].humidity <= 500
                  /\ Lst[i].temperature >= 250 /\ Lst[i].temperature <= 450
        /\ CallClimate = "Temperate" =>
              \A i \in 1..Len(Lst) :
                  /\ Lst[i].temperature >= 150 /\ Lst[i].temperature <= 350
                  /\ Lst[i].humidity >= 400 /\ Lst[i].humidity <= 800

\* A semi-arid location with draws far in the upper tails: the ceilings of the
\* climate type bind, not the global ones.
C13_Witness ==
    /\ pc = "synth_returned"
    /\ CallClimate = "Semi-arid"
    /\ call_args.noise.h = 12
    /\ call_args.noise.t = 12
    /\ \E i \in 1..Len(Lst) : Lst[i].humidity = 500 /\ Lst[i].temperature = 450

\* C14: for a key the profile table does not hold, the generator applies no
\* clamp of a climate type: each day's temperature and humidity are the
\* default baseline plus season and noise, bounded by the global clamps alone.
C14_UnknownKeyOnlyGlobalClamps ==
    (pc = "synth_returned" /\ call_args.city \notin DOMAIN ClimateData) =>
        \A i \in 1..Len(Lst) :
            LET base == ClimateData["default"]
                sf == seasonal_factor(AddDays(today, i - 1))
                temp0 == base.avg_temp + 8 * sf + 2000 * call_args.noise.t
                hum0 == base.avg_humidity - 10 * sf + 5000 * call_args.noise.h
            IN /\ Lst[i].temperature = Round1(Clip(temp0, 15000, 45000))
               /\ Lst[i].humidity = Round1(Clip(hum0, 20000, 95000))

---------------------------------------------------------------------------
(* create_weather_features and the profile lookup on their own: SpecFeatures *)

\* 1000 * cos(2 * pi * day_of_year / 365.25), rounded, for day_of_year 1..366.
CosTable == <<
    1000, 999, 999, 998, 996, 995, 993, 991, 988, 985, 982, 979,
    975, 971, 967, 962, 958, 952, 947, 941, 935, 929, 923, 916,
    909, 902, 894, 886, 878, 870, 861, 852, 843, 834, 824, 814,
    804, 794, 783, 772, 761, 750, 739, 727, 715, 703, 691, 678,
    665, 652, 639, 626, 612, 599, 585, 571, 557, 542, 528, 513,
    498, 483, 468, 453, 437, 422, 406, 390, 374, 358, 342, 326,
    310, 293, 277, 260, 244, 227, 210, 193, 176, 160, 143, 125,
    108, 91, 74, 57, 40, 23, 5, -12, -29, -46, -63, -81,
    -98, -115, -132, -149, -166, -183, -200, -217, -233, -250, -267, -283,
    -300, -316, -332, -348, -364, -380, -396, -412, -428, -443, -458, -474,
    -489, -504, -519, -533, -548, -562, -576, -590, -604, -617, -631, -644,
    -657, -670, -683, -695, -707, -720, -731, -743, -754, -766, -777, -787,
    -798, -808, -818, -828, -837, -847, -856, -864, -873, -881, -889, -897,
    -904, -912, -919, -925, -932, -938, -944, -949, -954, -959, -964, -969,
    -973, -977, -980, -983, -986, -989, -991, -994, -995, -997, -998, -999,
    -1000, -1000, -1000, -1000, -999, -998, -997, -996, -994, -992, -990, -987,
    -984, -981, -977, -974, -970, -965, -961, -956, -950, -945, -939, -933,
    -927, -920, -913, -906, -899, -891, -883, -875, -867, -858, -849, -840,
    -830, -820, -811, -800, -790, -779, -768, -757, -746, -734, -723, -711,
    -698, -686, -673, -660, -647, -634, -621, -607, -594, -580, -565, -551,
    -537, -522, -507, -493, -477, -462, -447, -432, -416, -400, -384, -368,
    -352, -336, -320, -304, -287, -271, -254, -237, -221, -204, -187, -170,
    -153, -136, -119, -102, -85, -68, -51, -33, -16, 1, 18, 35,
    53, 70, 87, 104, 121, 138, 155, 172, 189, 206, 223, 240,
    256, 273, 289, 306, 322, 338, 354, 370, 386, 402, 418, 433,
    449, 464, 479, 494, 509, 524, 539, 553, 567, 581, 595, 609,
    623, 636, 649, 662, 675, 687, 700, 712, 724, 736, 747, 759,
    770, 781, 791, 802, 812, 822, 831, 841, 850, 859, 868, 876,
    884, 892, 900, 907, 914, 921, 928, 934, 940, 946, 951, 956,
    961, 966, 970, 974, 978, 981, 984, 987, 990, 992, 994, 996,
    997, 998, 999, 1000, 1000, 1000
>>

\* 1000 * sin(4 * pi * day_of_year / 365.25), rounded, for day_of_year 1..366.
Sin2Table == <<
    34, 69, 103, 137, 171, 205, 239, 272, 305, 337, 369, 401,
    432, 463, 493, 523, 552, 580, 608, 635, 661, 687, 711, 735,
    758, 780, 801, 821, 840, 858, 876, 892, 907, 921, 934, 945,
    956, 966, 974, 981, 987, 992, 996, 998, 1000, 1000, 999, 997,
    993, 989, 983, 976, 968, 959, 949, 937, 925, 911, 896, 881,
    864, 846, 827, 807, 787, 765, 742, 719, 694, 669, 643, 617,
    589, 561, 532, 503, 473, 442, 411, 379, 347, 315, 282, 249,
    215, 182, 148, 114, 79, 45, 11, -24, -58, -92, -127, -161,
    -194, -228, -261, -294, -327, -359, -391, -423, -454, -484, -514, -543,
    -572, -600, -627, -653, -679, -704, -728, -751, -773, -794, -815, -834,
    -853, -870, -887, -902, -916, -930, -942, -953, -963, -971, -979, -985,
    -991, -995, -998, -999, -1000, -999, -998, -995, -990, -985, -979, -971,
    -962, -952, -941, -929, -916, -901, -886, -869, -852, -833, -814, -793,
    -772, -749, -726, -702, -677, -652, -625, -598, -570, -541, -512, -482,
    -452, -421, -389, -357, -325, -292, -259, -226, -192, -158, -124, -90,
    -56, -22, 13, 47, 82, 116, 150, 184, 218, 251, 284, 317,
    349, 381, 413, 444, 475, 505, 534, 563, 591, 618, 645, 671,
    696, 720, 744, 766, 788, 809, 828, 847, 865, 882, 897, 912,
    926, 938, 949, 960, 969, 977, 984, 989, 994, 997, 999, 1000,
    1000, 998, 996, 992, 987, 981, 973, 965, 955, 945, 933, 920,
    906, 891, 874, 857, 839, 820, 800, 779, 757, 734, 710, 685,
    660, 633, 606, 579, 550, 521, 492, 461, 431, 399, 367, 335,
    303, 270, 236, 203, 169, 135, 101, 67, 32, -2, -37, -71,
    -105, -139, -173, -207, -241, -274, -307, -339, -371, -403, -434, -465,
    -495, -525, -554, -582, -610, -637, -663, -688, -713, -736, -759, -781,
    -802, -822, -841, -860, -877, -893, -908, -921, -934, -946, -957, -966,
    -974, -982, -988, -992, -996, -998, -1000, -1000, -999, -997, -993, -989,
    -983, -976, -968, -958, -948, -937, -924, -910, -896, -880, -863, -845,
    -826, -806, -785, -764, -741, -717, -693, -668, -642, -615, -587, -559,
    -530, -501, -471, -440, -409, -377, -345, -313, -280, -247, -213, -180,
    -146, -112, -77, -43, -9, 26
>>

\* 1000 * cos(4 * pi * day_of_year / 365.25), rounded, for day_of_year 1..366.
Cos2Table == <<
    999, 998, 995, 991, 985, 979, 971, 962, 952, 941, 929, 916,
    902, 886, 870, 852, 834, 814, 794, 772, 750, 727, 703, 678,
    652, 626, 599, 571, 542, 513, 483, 453, 422, 390, 358, 326,
    293, 260, 227, 193, 160, 125, 91, 57, 23, -12, -46, -81,
    -115, -149, -183, -217, -250, -283, -316, -348, -380, -412, -443, -474,
    -504, -533, -562, -590, -617, -644, -670, -695, -720, -743, -766, -787,
    -808, -828, -847, -864, -881, -897, -912, -925, -938, -949, -959, -969,
    -977, -983, -989, -994, -997, -999, -1000, -1000, -998, -996, -992, -987,
    -981, -974, -965, -956, -945, -933, -920, -906, -891, -875, -858, -840,
    -820, -800, -779, -757, -734, -711, -686, -660, -634, -607, -580, -551,
    -522, -493, -462, -432, -400, -368, -336, -304, -271, -237, -204, -170,
    -136, -102, -68, -33, 1, 35, 70, 104, 138, 172, 206, 240,
    273, 306, 338, 370, 402, 433, 464, 494, 524, 553, 581, 609,
    636, 662, 687, 712, 736, 759, 781, 802, 822, 841, 859, 876,
    892, 907, 921, 934, 946, 956, 966, 974, 981, 987, 992, 996,
    998, 1000, 1000, 999, 997, 993, 989, 983, 976, 968, 959, 948,
    937, 924, 911, 896, 880, 863, 845, 827, 807, 786, 764, 742,
    718, 694, 668, 643, 616, 588, 560, 531, 502, 472, 441, 410,
    378, 346, 314, 281, 248, 214, 181, 147, 113, 78, 44, 10,
    -25, -59, -93, -128, -162, -195, -229, -262, -295, -328, -360, -392,
    -424, -455, -485, -515, -544, -573, -600, -628, -654, -680, -704, -728,
    -752, -774, -795, -816, -835, -853, -871, -887, -903, -917, -930, -942,
    -953, -963, -972, -979, -986, -991, -995, -998, -999, -1000, -999, -997,
    -994, -990, -985, -978, -971, -962, -952, -941, -928, -915, -901, -885,
    -869, -851, -833, -813, -793, -771, -749, -725, -701, -676, -651, -624,
    -597, -569, -540, -511, -481, -451, -420, -388, -356, -324, -291, -258,
    -225, -191, -157, -123, -89, -55, -20, 14, 48, 83, 117, 151,
    185, 219, 252, 285, 318, 350, 382, 414, 445, 476, 506, 535,
    564, 592, 619, 646, 672, 697, 721, 744, 767, 789, 809, 829,
    848, 865, 882, 898, 912, 926, 938, 950, 960, 969, 977, 984,
    989, 994, 997, 999, 1000, 1000
>>

\* np.sin(2 * np.pi * 12 / 24) and np.cos(2 * np.pi * 12 / 24), in thousandths.
hour_sin == 0
hour_cos == -1000

\* date_obj.weekday(): Monday is 0; ordinal 1 was a Monday.
Weekday(dt) == (ToOrdinal(dt) + 6) % 7

\* a / b to the nearest integer, for a >= 0 and b > 0.
RoundDiv(a, b) == (a + b \div 2) \div b

\* A value passed as city_name: a string, None, or a list such as
\* ['new_delhi'], which is truthy and not hashable.
StrArg(k) == [kind |-> "str", key |-> k]
NoneArg == [kind |-> "None", key |-> ""]
ListArg == [kind |-> "list", key |-> "new_delhi"]

\* `if city_name:`
CityTruthy(arg) == arg.kind = "list" \/ (arg.kind = "str" /\ arg.key # "")

\* get_city_climate_info(city_name) inside the try: dict.get raises TypeError
\* for a key that is not hashable.
LookupOutcomeKeyError(arg) ==
    IF arg.kind = "list" \/ arg.key \notin DOMAIN ClimateData THEN Raise
    ELSE Return(ClimateData[arg.key])
LookupOutcome(arg) ==
    IF arg.kind = "list" THEN Raise
    ELSE IF arg.kind = "str" THEN Return(get_city_climate_info(arg.key))
    ELSE Return(ClimateData["default"])

\* The nine locals read from climate_info.
ProfileValues(climate_info) ==
    [avg_temp |-> climate_info.avg_temp, avg_humidity |-> climate_info.avg_humidity,
     avg_pressure |-> climate_info.avg_pressure, wind_speed |-> climate_info.wind_speed,
     cloud_cover |-> climate_info.cloud_cover, visibility |-> climate_info.visibility,
     wind_direction |-> climate_info.wind_direction, latitude |-> climate_info.latitude,
     longitude |-> climate_info.longitude]

\* The values of the except branch.
ExceptValues ==
    [avg_temp |-> 25000, avg_humidity |-> 65000, avg_pressure |-> 1013000,
     wind_speed |-> 10000, cloud_cover |-> 50000, visibility |-> 10000,
     wind_direction |-> 180000, latitude |-> 286139, longitude |-> 772090]

\* The values of the else branch of `if city_name:`.
NoCityValues ==
    [avg_temp |-> 25000, avg_humidity |-> 65000, avg_pressure |-> 1013000,
     wind_speed |-> 10000, cloud_cover |-> 50000, visibility |-> 10000,
     wind_direction |-> 180000, latitude |-> 286139, longitude |-> 772090]

\* The if / try / except that sets the locals.
FeatureLocals(city_name) ==
    IF CityTruthy(city_name)
    THEN LET r == LookupOutcome(city_name)
         IN IF r.kind = "raise" THEN ExceptValues ELSE ProfileValues(r.value)
    ELSE NoCityValues

\* The np.array literal.
features_array(date_obj, b) ==
    LET day_of_year == DayOfYear(date_obj)
    IN << date_obj.m,
          date_obj.d,
          Weekday(date_obj),
          SinTable[day_of_year],
          CosTable[day_of_year],
          Sin2Table[day_of_year],
          Cos2Table[day_of_year],
          hour_sin,
          hour_cos,
          RoundDiv(b.avg_temp * b.avg_humidity, 100000),
          RoundDiv(b.avg_pressure * 1000, b.avg_temp),
          b.cloud_cover,
          b.visibility,
          b.wind_direction,
          b.avg_temp,
          b.avg_pressure,
          b.wind_speed,
          day_of_year,
          12,
          b.latitude,
          b.longitude >>

create_weather_features_swapped(date_obj, city_name) ==
    LET f == features_array(date_obj, FeatureLocals(city_name))
    IN [f EXCEPT ![16] = f[17], ![17] = f[16]]
create_weather_features(date_obj, city_name) ==
    features_array(date_obj, FeatureLocals(city_name))

\* Number of calls with the same arguments.
FeatureCalls == 2

\* Keys of the table, keys it lacks (one differs from a key by case only), the
\* key "default", the empty string, None and a list.
CityArgs ==
    {StrArg(k) : k \in {"new_delhi", "mumbai", "bangalore", "jaipur", "ludhiana",
                        "New Delhi", "default", ""}}
        \cup {NoneArg, ListArg}

\* Every weekday, the first and the 366th day of a leap year, 29 February.
FeatureDates ==
    {[y |-> 2024, m |-> 1, d |-> 1], [y |-> 2024, m |-> 2, d |-> 29],
     [y |-> 2024, m |-> 12, d |-> 31], [y |-> 2025, m |-> 1, d |-> 1],
     [y |-> 2025, m |-> 3, d |-> 2], [y |-> 2025, m |-> 7, d |-> 4],
     [y |-> 2025, m |-> 10, d |-> 11], [y |-> 2023, m |-> 6, d |-> 15]}

InitFeatures ==
    /\ pc = "unit_call"
    /\ call_args \in [city_name : CityArgs, date_obj : FeatureDates]
    /\ today = call_args.date_obj
    /\ selected_city = "new_delhi"
    /\ origin = "none"
    /\ forecast_data = List(<<>>)
    /\ risks = None
    /\ UnitIdle

\* One more call of create_weather_features(date_obj, city_name).
CreateFeatures ==
    /\ pc = "unit_call"
    /\ origin \in {"none", "features"}
    /\ Len(Lst) < FeatureCalls
    /\ forecast_data' =
          List(Append(Lst, create_weather_features(call_args.date_obj, call_args.city_name)))
    /\ origin' = "features"
    /\ UNCHANGED <<pc, today, selected_city, call_args, risks, unitFrame>>

\* One more call of get_city_climate_info(city) with a string.
LookupProfile ==
    /\ pc = "unit_call"
    /\ origin \in {"none", "profile"}
    /\ call_args.city_name.kind = "str"
    /\ Len(Lst) < FeatureCalls
    /\ forecast_data' = List(Append(Lst, get_city_climate_info(call_args.city_name.key)))
    /\ origin' = "profile"
    /\ UNCHANGED <<pc, today, selected_city, call_args, risks, unitFrame>>

NextFeatures == CreateFeatures \/ LookupProfile

SpecFeatures == InitFeatures /\ [][NextFeatures]_vars

\* C15: get_city_climate_info is total and has no side effects: for every
\* location string it returns a profile with a climate classification, the
\* table's entry for a key of the table and the "default" entry for every
\* other string, and a repeated call returns the same profile.
C15_ProfileLookupTotal ==
    (pc = "unit_call" /\ origin = "profile") =>
        \A i \in 1..Len(Lst) :
            LET key == call_args.city_name.key
                profile == Lst[i]
            IN /\ profile # None
               /\ profile.climate_type \in
                      {"Tropical Monsoon", "Tropical Wet and Dry", "Temperate", "Semi-arid"}
               /\ key \in {"new_delhi", "mumbai", "bangalore", "jaipur", "default"} =>
                      profile = ClimateData[key]
               /\ key \in {"ludhiana", "New Delhi", ""} => profile = ClimateData["default"]
               /\ profile = Lst[1]

\* A key that differs from a key of the table by case only was looked up
\* twice and got the default profile both times.
C15_Witness ==
    /\ pc = "unit_call"
    /\ origin = "profile"
    /\ call_args.city_name = StrArg("New Delhi")
    /\ Len(Lst) = FeatureCalls
    /\ Lst[FeatureCalls].avg_pressure = 1013250
    /\ Lst[FeatureCalls].climate_type = "Tropical Monsoon"

\* C16: create_weather_features returns exactly 21 elements in the order
\* month, day, weekday, seasonal_sin, seasonal_cos, seasonal_sin_2,
\* seasonal_cos_2, hour_sin, hour_cos, temp_humidity_interaction,
\* pressure_temp_ratio, cloud_cover, visibility, wind_direction, feels_like
\* (the average temperature), pressure, wind_speed, day_of_year, hour (12),
\* latitude, longitude, and the same vector for the same date and location.
C16_FeatureVectorOrder ==
    (pc = "unit_call" /\ origin = "features") =>
        \A i \in 1..Len(Lst) :
            LET f == Lst[i]
                date_obj == call_args.date_obj
                b == FeatureLocals(call_args.city_name)
                doy == ToOrdinal(date_obj) - ToOrdinal([y |-> date_obj.y, m |-> 1, d |-> 1]) + 1
            IN /\ Len(f) = 21
               /\ f[1] = date_obj.m
               /\ f[2] = date_obj.d
               /\ f[3] = Weekday(date_obj)
               /\ f[4] = SinTable[doy]
               /\ f[5] = CosTable[doy]
               /\ f[6] = Sin2Table[doy]
               /\ f[7] = Cos2Table[doy]
               /\ f[8] = 0
               /\ f[9] = -1000
               /\ f[10] = RoundDiv(b.avg_temp * b.avg_humidity, 100000)
               /\ f[11] = RoundDiv(b.avg_pressure * 1000, b.avg_temp)
               /\ f[12] = b.cloud_cover
               /\ f[13] = b.visibility
               /\ f[14] = b.wind_direction
               /\ f[15] = b.avg_temp
               /\ f[16] = b.avg_pressure
               /\ f[17] = b.wind_speed
               /\ f[18] = doy
               /\ f[19] = 12
               /\ f[20] = b.latitude
               /\ f[21] = b.longitude
               /\ f = Lst[1]

\* Two calls for jaipur on the 366th day of 2024, a Tuesday.
C16_Witness ==
    /\ pc = "unit_call"
    /\ origin = "features"
    /\ call_args.city_name = StrArg("jaipur")
    /\ call_args.date_obj = [y |-> 2024, m |-> 12, d |-> 31]
    /\ Len(Lst) = FeatureCalls
    /\ Lst[FeatureCalls][3] = 1
    /\ Lst[FeatureCalls][15] = 25500
    /\ Lst[FeatureCalls][16] = 1013000
    /\ Lst[FeatureCalls][17] = 7000
    /\ Lst[FeatureCalls][18] = 366

\* The baseline the claim names for each kind of argument.
C17_ExpectedBaseline(arg) ==
    IF arg.kind = "str" /\ arg.key \in {"new_delhi", "mumbai", "bangalore", "jaipur"}
    THEN ClimateData[arg.key]
    ELSE IF arg.kind = "str" /\ arg.key # ""
    THEN ClimateData["default"]
    ELSE [avg_temp |-> 25000, avg_humidity |-> 65000, avg_pressure |-> 1013000,
          wind_speed |-> 10000, cloud_cover |-> 50000, visibility |-> 10000,
          wind_direction |-> 180000]

\* C17: create_weather_features never fails: it returns the vector for every
\* argument, built from the location's profile for a known location, from
\* the "default" profile for an unknown one, and from the hard-coded baseline
\* (25, 65, 1013, wind 10, cloud 50, visibility 10, direction 180) only when
\* the lookup raises or no location is given; temperature * humidity / 100
\* and pressure / temperature come from that same baseline.
C17_FeatureBaseline ==
    (pc = "unit_call" /\ origin = "features") =>
        \A i \in 1..Len(Lst) :
            LET f == Lst[i]
                e == C17_ExpectedBaseline(call_args.city_name)
            IN /\ Len(f) = 21
               /\ f[15] = e.avg_temp
               /\ f[16] = e.avg_pressure
               /\ f[17] = e.wind_speed
               /\ f[12] = e.cloud_cover
               /\ f[13] = e.visibility
               /\ f[14] = e.wind_direction
               /\ f[10] = RoundDiv(e.avg_temp * e.avg_humidity, 100000)
               /\ f[11] = RoundDiv(e.avg_pressure * 1000, e.avg_temp)

\* The lookup raised for a list: the vector holds the hard-coded baseline.
C17_Witness ==
    /\ pc = "unit_call"
    /\ origin = "features"
    /\ call_args.city_name = ListArg
    /\ Len(Lst) >= 1
    /\ Lst[1][16] = 1013000
    /\ Lst[1][17] = 10000
    /\ Lst[1][12] = 50000
    /\ Lst[1][10] = 16250

---------------------------------------------------------------------------
(* The risk assessment on its own: SpecRisk *)

\* len(historical_weather[-7:]) for a 30-day history.
WindowLen == 7

RiskCities == {"mumbai", "bangalore", "jaipur", "ludhiana"}

\* The thresholds the view selects for a city.
CityThresholds(city) == RiskThresholds(get_city_climate_info(city).climate_type)

\* Readings around the thresholds of the city, all multiples of 0.5: on a
\* threshold, just above it, and on and just above the threshold of the average.
TempReadings(th) ==
    {th.heatwave_medium - 30, th.heatwave_medium - 20, th.heatwave_medium - 15,
     th.heatwave_medium, th.heatwave_medium + 5, th.heatwave_high - 20,
     th.heatwave_high - 15, th.heatwave_high, th.heatwave_high + 10}
HumidityReadings(th) ==
    {th.drought_medium - 5, th.drought_medium, th.drought_low - 5, th.drought_low,
     th.drought_low + 5, th.flood_medium, th.flood_high, th.flood_high + 5}
WindReadings(th) ==
    {0, th.storm_medium, th.storm_medium + 5, th.storm_high, th.storm_high + 5}

\* A window whose first six days read `a` and whose last day reads `b`.
RiskWindow(a, b, now) ==
    [i \in 1..WindowLen |->
        LET v == IF i < WindowLen THEN a ELSE b
        IN [date |-> Strftime(AddDays(now, i - 1)), temperature |-> v.t,
            humidity |-> v.h, pressure |-> 10130, wind_speed |-> v.w]]

RiskWindows(city, now) ==
    LET th == CityThresholds(city)
    IN {RiskWindow(a, b, now) :
          a \in [t : TempReadings(th), h : HumidityReadings(th), w : {0, th.storm_medium + 5}],
          b \in [t : {th.heatwave_medium - 30, th.heatwave_medium - 20,
                      th.heatwave_medium + 5, th.heatwave_high - 20, th.heatwave_high,
                      th.heatwave_high + 10},
                 h : {th.drought_medium - 5, th.drought_low, th.drought_low + 5,
                      th.flood_high, th.flood_high + 5},
                 w : WindReadings(th)]}

InitRisk ==
    /\ pc = "risk_call"
    /\ today = [y |-> 2025, m |-> 12, d |-> 15]
    /\ selected_city \in RiskCities
    /\ forecast_data \in {List(w) : w \in RiskWindows(selected_city, today)}
    /\ origin = "none"
    /\ call_args = NoArgs
    /\ risks = None
    /\ UnitIdle

\* The risk calculations and the four chains of show_enhanced_disaster_risk.
AssessRisk ==
    /\ pc = "risk_call"
    /\ risks' = RiskAssessment(Last7(Lst), selected_city)
    /\ pc' = "risk_done"
    /\ UNCHANGED <<today, selected_city, origin, call_args, forecast_data, unitFrame>>

NextRisk == AssessRisk

SpecRisk == InitRisk /\ [][NextRisk]_vars

\* The window the assessment read, and its sums and extremes, written out.
Win == Last7(Lst)
WinSum(f) == Win[1][f] + Win[2][f] + Win[3][f] + Win[4][f] + Win[5][f] + Win[6][f] + Win[7][f]
WinAbove(f, x) == \E i \in 1..7 : Win[i][f] > x

\* C18: the heatwave level of the 7-day window is HIGH if the maximum
\* temperature exceeds heatwave_high or the average exceeds heatwave_high - 2,
\* otherwise MEDIUM if the maximum exceeds heatwave_medium or the average
\* exceeds heatwave_medium - 2, otherwise LOW; HIGH is tested first, and a
\* value equal to a threshold does not trigger it.
C18_HeatwaveLevel ==
    pc = "risk_done" =>
        LET th == CityThresholds(selected_city)
            high == WinAbove("temperature", th.heatwave_high)
                      \/ WinSum("temperature") > (th.heatwave_high - 20) * 7
            medium == WinAbove("temperature", th.heatwave_medium)
                        \/ WinSum("temperature") > (th.heatwave_medium - 20) * 7
        IN /\ Len(Win) = 7
           /\ risks.heatwave = (IF high THEN "HIGH" ELSE IF medium THEN "MEDIUM" ELSE "LOW")
           /\ (high /\ medium) => risks.heatwave = "HIGH"

\* The maximum equals heatwave_high and the average stays at or below
\* heatwave_high - 2: the level is MEDIUM, not HIGH.
C18_Witness ==
    /\ pc = "risk_done"
    /\ LET th == CityThresholds(selected_city)
       IN /\ Win[7].temperature = th.heatwave_high
          /\ \A i \in 1..6 : Win[i].temperature = th.heatwave_medium - 30
          /\ risks.heatwave = "MEDIUM"

\* The drought thresholds the claim lists for the climate type, in tenths.
C19_Pair(climate_type) ==
    CASE climate_type \in {"Tropical Monsoon", "Tropical Wet and Dry"} -> <<600, 500>>
      [] climate_type = "Temperate" -> <<450, 350>>
      [] climate_type = "Semi-arid" -> <<300, 200>>
      [] OTHER -> <<400, 300>>

\* C19: the drought level of the 7-day window is HIGH if the average
\* humidity is below drought_low, otherwise MEDIUM if it is below
\* drought_medium, otherwise LOW, with the pair of the climate type of the
\* location: tropical 60/50, temperate 45/35, arid 30/20, default 40/30.
C19_DroughtLevel ==
    pc = "risk_done" =>
        LET pair == C19_Pair(get_city_climate_info(selected_city).climate_type)
            sum == WinSum("humidity")
        IN /\ risks.drought = (IF sum < pair[1] * 7 THEN "HIGH"
                               ELSE IF sum < pair[2] * 7 THEN "MEDIUM" ELSE "LOW")
           /\ RiskThresholds("Unknown").drought_low = C19_Pair("Unknown")[1]
           /\ RiskThresholds("Unknown").drought_medium = C19_Pair("Unknown")[2]

\* A temperate location whose average humidity is exactly 45: the level is LOW.
C19_Witness ==
    /\ pc = "risk_done"
    /\ selected_city = "bangalore"
    /\ \A i \in 1..7 : Win[i].humidity = 450
    /\ WinSum("humidity") = 450 * 7
    /\ risks.drought = "LOW"

\* C20: the storm level of the 7-day window is HIGH if the maximum wind speed
\* exceeds storm_high, otherwise MEDIUM if it exceeds storm_medium, otherwise
\* LOW; the average wind speed, the temperatures and the humidities play no part.
C20_StormLevel ==
    pc = "risk_done" =>
        LET th == CityThresholds(selected_city)
        IN risks.storm = (IF WinAbove("wind_speed", th.storm_high) THEN "HIGH"
                          ELSE IF WinAbove("wind_speed", th.storm_medium) THEN "MEDIUM"
                          ELSE "LOW")

\* One gust above storm_high in an otherwise calm week, whose average is
\* below storm_medium: the level is HIGH.
C20_Witness ==
    /\ pc = "risk_done"
    /\ LET th == CityThresholds(selected_city)
       IN /\ Win[7].wind_speed = th.storm_high + 5
          /\ \A i \in 1..6 : Win[i].wind_speed = 0
          /\ WinSum("wind_speed") < th.storm_medium * 7
          /\ risks.storm = "HIGH"
          /\ risks.heatwave = "LOW"

\* C21: the flood level of the 7-day window is HIGH if the average humidity
\* exceeds flood_high, otherwise MEDIUM if it exceeds flood_medium, otherwise
\* LOW; and the assessment gives each of heatwave, drought, storm and flood
\* exactly one level of LOW, MEDIUM and HIGH.
C21_FloodLevelAndLevels ==
    pc = "risk_done" =>
        LET th == CityThresholds(selected_city)
            sum == WinSum("humidity")
        IN /\ risks.flood = (IF sum > th.flood_high * 7 THEN "HIGH"
                             ELSE IF sum > th.flood_medium * 7 THEN "MEDIUM" ELSE "LOW")
           /\ DOMAIN risks = {"heatwave", "drought", "storm", "flood"}
           /\ \A hazard \in DOMAIN risks : risks[hazard] \in {"LOW", "MEDIUM", "HIGH"}

\* An average humidity exactly on flood_high: the level is MEDIUM.
C21_Witness ==
    /\ pc = "risk_done"
    /\ \A i \in 1..7 : Win[i].humidity = CityThresholds(selected_city).flood_high
    /\ risks.flood = "MEDIUM"
    /\ risks.drought = "LOW"

\* C22: the thresholds follow the climate classification of the location: a
\* semi-arid location such as jaipur is assessed with heatwave_high 42 and
\* heatwave_medium 37, so a window whose maximum temperature is 43 is HIGH,
\* and one whose maximum is 42 and whose average is at most 40 is not.
C22_AridTableSelected ==
    (pc = "risk_done" /\ get_city_climate_info(selected_city).climate_type = "Semi-arid") =>
        /\ WinAbove("temperature", 420) => risks.heatwave = "HIGH"
        /\ (~WinAbove("temperature", 420) /\ WinSum("temperature") <= 400 * 7) =>
              risks.heatwave # "HIGH"
        /\ (~WinAbove("temperature", 370) /\ WinSum("temperature") <= 350 * 7) =>
              risks.heatwave = "LOW"

\* jaipur with a maximum of exactly 42 and an average below 40: MEDIUM.
C22_Witness ==
    /\ pc = "risk_done"
    /\ selected_city = "jaipur"
    /\ Win[7].temperature = 420
    /\ \A i \in 1..6 : Win[i].temperature = 340
    /\ risks.heatwave = "MEDIUM"

\* C28: the drought level is never MEDIUM: in every threshold table
\* drought_low exceeds drought_medium (60/50, 45/35, 30/20, 40/30), so a
\* window whose average humidity is below drought_medium is already below
\* drought_low and HIGH; the level is HIGH or LOW for every window.
C28_DroughtNeverMedium ==
    /\ \A ct \in {"Tropical Monsoon", "Tropical Wet and Dry", "Temperate", "Semi-arid",
                  "Unknown"} :
          RiskThresholds(ct).drought_low > RiskThresholds(ct).drought_medium
    /\ pc = "risk_done" =>
          /\ risks.drought \in {"HIGH", "LOW"}
          /\ WinSum("humidity") < CityThresholds(selected_city).drought_medium * 7 =>
                risks.drought = "HIGH"

\* An average humidity below drought_medium: HIGH.
C28_Witness ==
    /\ pc = "risk_done"
    /\ \A i \in 1..7 : Win[i].humidity = CityThresholds(selected_city).drought_medium - 5
    /\ risks.drought = "HIGH"

\* The default table of the assessment.
C29_DefaultTable ==
    [heatwave_high |-> 400, heatwave_medium |-> 350, drought_low |-> 400,
     drought_medium |-> 300, flood_high |-> 850, flood_medium |-> 750,
     storm_high |-> 200, storm_medium |-> 150]

\* C29: for every location string, known or not, the assessment selects the
\* tropical, temperate or arid table and never the default table (heatwave
\* 40/35, drought 40/30, flood 85/75, storm 20/15): the climate type of every
\* profile, the fallback profile included, contains 'tropical', 'temperate'
\* or 'arid'.
C29_DefaultTableNeverSelected ==
    /\ RiskThresholds("Unknown") = C29_DefaultTable
    /\ pc = "risk_done" =>
          LET ct == get_city_climate_info(selected_city).climate_type
          IN /\ InLower("tropical", ct) \/ InLower("temperate", ct) \/ InLower("arid", ct)
             /\ CityThresholds(selected_city) # C29_DefaultTable

\* A key the profile table lacks is assessed with the tropical table: an
\* average humidity just below 60 is a HIGH drought, which the default table
\* (40) would rate LOW.
C29_Witness ==
    /\ pc = "risk_done"
    /\ selected_city = "ludhiana"
    /\ \A i \in 1..6 : Win[i].humidity = 595
    /\ Win[7].humidity = 600
    /\ risks.drought = "HIGH"

\* C24: in the remote tier only a missing object is handled per target: any
\* other error on the metadata, a regressor or a scaler ends the whole tier
\* with None, whatever was loaded before, and load_location_model then asks
\* the local tier; a load error on one target's files likewise ends the
\* whole local tier with None.
C24_TierErrorFailsTier ==
    /\ s3_reason = "error" => s3_outcome = Return(None)
    /\ local_reason = "error" => local_outcome = Return(None)
    /\ (pc = "s3_done" /\ s3_reason \in {"bundle", "no_models"}) =>
          \A t \in TargetSet : s3_seen[t] \in {"both", "no_model", "no_scaler"}
    /\ (pc = "resolved" /\ s3_reason = "error") =>
          /\ local_reason # "not_called"
          /\ resolve_outcome = Return(local_outcome.value)
          /\ resolve_outcome.value # None => resolve_outcome.value.model_info = "local_info"
    /\ (pc = "resolved" /\ local_reason = "error") => resolve_outcome = Return(None)

\* The remote tier failed on the scaler of the second target, after the first
\* target was loaded in full: its result is None.
C24_Witness ==
    /\ pc = "s3_done"
    /\ s3_reason = "error"
    /\ models = {"temperature", "humidity"}
    /\ scalers = {"temperature"}
    /\ s3_outcome = Return(None)

\* C26: when a bundle is loaded and the prediction cannot run or fails (the
\* scalers mapping is empty, or a scaler or regressor raises),
\* predict_weather_location returns None and the forecast view reports the
\* error: it neither falls back to the synthetic generator nor shows an
\* empty or zero-filled sequence.
C26_PredictionFailureReported ==
    (page = "forecast" /\ current_model # None) =>
        LET failed == \/ current_model.scalers = {}
                      \/ \E t \in Covered(current_model) : call_args.reg[t] = "raises"
        IN /\ origin = "model"
           /\ failed => (forecast_data = None /\ view_error)
           /\ ~failed => (forecast_data # None /\ Len(Lst) = call_args.days /\ ~view_error)

\* A regressor of a loaded bundle raised in the forecast view.
C26_Witness ==
    /\ page = "forecast"
    /\ current_model # None
    /\ Covered(current_model) = TargetSet
    /\ \A t \in TargetSet : call_args.reg[t] = "raises"
    /\ origin = "model"
    /\ forecast_data = None
    /\ view_error

---------------------------------------------------------------------------
(* The disaster-risk view on its own: SpecRiskView *)

ViewCities == {"new_delhi", "mumbai", "bangalore", "jaipur", "ludhiana"}

\* datetime.now() of the script run: days in each season and at the turn of
\* a leap year.
ViewDates == {[y |-> 2024, m |-> 2, d |-> 10], [y |-> 2024, m |-> 12, d |-> 20],
              [y |-> 2025, m |-> 4, d |-> 1], [y |-> 2025, m |-> 6, d |-> 30],
              [y |-> 2025, m |-> 8, d |-> 15], [y |-> 2025, m |-> 10, d |-> 1]}

\* The draws of the generator in a script run.
ViewNoise(md) ==
    IF md = None
    THEN [t : {-12, -1, 0, 1, 12}, h : {-12, -1, 0, 1, 12}, p : {0}, w : {-12, 0, 12}]
    ELSE {ZeroNoise}

\* The script run has passed the model-loading step of main: no bundle was
\* found for the selected city, or the remote tier returned a bundle with
\* every target.
InitRiskView ==
    /\ pc = "page"
    /\ today \in ViewDates
    /\ selected_city \in ViewCities
    /\ current_city = selected_city
    /\ current_model \in {None, S3ModelData(TargetSet, TargetSet, selected_city)}
    /\ s3_cache = [c \in Cities \cup ViewCities |->
                      IF c = selected_city THEN {current_model} ELSE {}]
    /\ local_cache = [c \in Cities \cup ViewCities |->
                         IF c = selected_city /\ current_model = None THEN {None} ELSE {}]
    /\ models = {}
    /\ scalers = {}
    /\ tidx = 0
    /\ s3_seen = Unread
    /\ local_seen = Unread
    /\ s3_outcome = NotCalled
    /\ s3_reason = "not_called"
    /\ local_outcome = NotCalled
    /\ local_reason = "not_called"
    /\ resolve_outcome = NotCalled
    /\ page = "none"
    /\ origin = "none"
    /\ call_args = NoArgs
    /\ forecast_data = None
    /\ risks = None
    /\ view_error = FALSE

NextRiskView ==
    \E reg \in RegScenarios(current_model), noise \in ViewNoise(current_model) :
        show_enhanced_disaster_risk(reg, noise)

SpecRiskView == InitRiskView /\ [][NextRiskView]_vars

\* The entries at positions 24..30 of the view's forecast, written out.
C25_Window == <<Lst[24], Lst[25], Lst[26], Lst[27], Lst[28], Lst[29], Lst[30]>>

\* C25: the risk assessment reads exactly 7 entries, the last 7 of a 30-day
\* forecast (today + 23 .. today + 29), which comes from the generator the
\* dispatch rule selects; the entries before them do not affect any level.
C25_RiskWindow ==
    (page = "risk" /\ ~view_error) =>
        /\ origin = (IF current_model = None THEN "synthetic" ELSE "model")
        /\ call_args.days = 30
        /\ Len(Lst) = 30
        /\ \A k \in 0..6 : C25_Window[k + 1].date = Strftime(AddDays(today, 23 + k))
        /\ LET th == CityThresholds(selected_city)
           IN risks = [heatwave |-> HeatwaveLevel(C25_Window, th),
                       drought |-> DroughtLevel(C25_Window, th),
                       storm |-> StormLevel(C25_Window, th),
                       flood |-> FloodLevel(C25_Window, th)]

\* The first 7 days of the forecast would be rated LOW, the last 7 are rated
\* MEDIUM, and MEDIUM is the heatwave level shown.
C25_Witness ==
    /\ page = "risk"
    /\ ~view_error
    /\ origin = "synthetic"
    /\ Len(Lst) = 30
    /\ HeatwaveLevel(SubSeq(Lst, 1, 7), CityThresholds(selected_city)) = "LOW"
    /\ HeatwaveLevel(C25_Window, CityThresholds(selected_city)) = "MEDIUM"
    /\ risks.heatwave = "MEDIUM"

\* C30: with the synthetic generator the storm level is never HIGH, since
\* the wind speed is clamped to 20 and every storm_high that can be selected
\* (25, 20, 22) is at least 20 and compared strictly; and for a tropical
\* location the drought level is always LOW, since every humidity is at
\* least 60 and the tropical drought_low is 60.
C30_SyntheticStormAndDrought ==
    (page = "risk" /\ origin = "synthetic") =>
        /\ ~view_error
        /\ \A i \in 1..Len(Lst) : Lst[i].wind_speed <= 200
        /\ CityThresholds(selected_city).storm_high >= 200
        /\ risks.storm # "HIGH"
        /\ get_city_climate_info(selected_city).climate_type
               \in {"Tropical Monsoon", "Tropical Wet and Dry"} =>
                  /\ \A i \in 1..Len(Lst) : Lst[i].humidity >= 600
                  /\ risks.drought = "LOW"

\* A tropical location with the wind on its ceiling of 20 and the humidity on
\* its floor of 60 on each of the last 7 days: storm MEDIUM, drought LOW.
C30_Witness ==
    /\ page = "risk"
    /\ origin = "synthetic"
    /\ selected_city = "mumbai"
    /\ \A i \in 24..30 : Lst[i].wind_speed = 200 /\ Lst[i].humidity = 600
    /\ risks.storm = "MEDIUM"
    /\ risks.drought = "LOW"

---------------------------------------------------------------------------
(* A browser session: script runs that follow one another *)

\* Streamlit runs the script again on every interaction; st.session_state and
\* the st.cache_data stores outlive the run, the locals of the run do not.
Rerun ==
    /\ pc = "rendered"
    /\ pc' = "main"
    /\ page' = "none"
    /\ origin' = "none"
    /\ call_args' = NoArgs
    /\ forecast_data' = None
    /\ risks' = None
    /\ view_error' = FALSE
    /\ UNCHANGED <<today, sessionVars, cacheVars, resolveVars>>

\* ttl=3600: an entry of a tier's st.cache_data store is dropped an hour
\* after it was stored; the session is idle between two runs meanwhile.
CacheTiers == {"s3", "local"}

CacheExpire(tier, city) ==
    /\ pc = "rendered"
    /\ IF tier = "s3"
       THEN /\ s3_cache[city] # {}
            /\ s3_cache' = [s3_cache EXCEPT ![city] = {}]
            /\ UNCHANGED local_cache
       ELSE /\ local_cache[city] # {}
            /\ local_cache' = [local_cache EXCEPT ![city] = {}]
            /\ UNCHANGED s3_cache
    /\ UNCHANGED <<pc, today, sessionVars, resolveVars, viewVars>>

\* The cities selected during the session, and the answers of the two stores:
\* a bundle is whole, absent or unreadable.
SessionCities == {"new_delhi", "jaipur"}
SessionModelOutcomes == {"ok", "error"}
SessionScalerOutcomes == {"ok"}
SessionPeriod == 5

\* One regressor set that predicts and one that raises.
SessionRegs(md) ==
    IF md = None THEN {<<>>}
    ELSE {[t \in Covered(md) |-> "mid"], [t \in Covered(md) |-> "raises"]}

NextSession ==
    \/ \E city \in SessionCities : Main(city)
    \/ \E o \in FetchOutcomes : S3GetInfo(o)
    \/ \E o \in SessionModelOutcomes : S3GetModel(o)
    \/ \E o \in SessionScalerOutcomes : S3GetScaler(o)
    \/ AfterS3
    \/ \E e \in BOOLEAN : LocalCheckDir(e)
    \/ \E o \in FetchOutcomes : LocalLoadInfo(o)
    \/ \E l \in LoadOutcomes : LocalLoadTarget(TRUE, TRUE, l)
    \/ AfterLocal
    \/ MainStoreModel
    \/ \E reg \in SessionRegs(current_model) :
            show_enhanced_forecast(SessionPeriod, reg, ZeroNoise)
    \/ Rerun
    \/ \E tier \in CacheTiers, city \in SessionCities : CacheExpire(tier, city)

SpecSession == Init /\ [][NextSession]_vars

\* C23: a resolution call is not memoized: when load_location_model returns,
\* its result was determined by what the two stores answered during this very
\* call, so each tier it ran did read its store and none was answered from a
\* result remembered from an earlier call.
C23_ResolveReadsStores ==
    pc = "resolved" => (s3_reason # "cached" /\ local_reason # "cached")

\* C27: after the model-loading step current_city is the selected city and
\* current_model is None or a bundle of the selected city; a model forecast is
\* made with the bundle of the selected city; and a run attempts the resolution
\* exactly when current_model is None or the selection differs from
\* current_city.
C27_AfterLoading ==
    /\ pc = "page" =>
          /\ current_city = selected_city
          /\ current_model = None \/ current_model.city = selected_city
    /\ (pc = "rendered" /\ origin = "model") =>
          /\ current_model # None
          /\ call_args.city = selected_city
          /\ current_model.city = selected_city

C27_SessionInvariant ==
    /\ []C27_AfterLoading
    /\ [][pc = "main" =>
            ((pc' \in {"s3_info", "s3_done"}) <=>
                (current_model = None \/ current_city # selected_city'))]_vars
    /\ [][(pc = "main" /\ pc' = "page") =>
            (current_model' = current_model /\ current_city' = selected_city')]_vars

\* The session loaded a bundle for new_delhi, the selection then changed to
\* jaipur, and the forecast of the run is made with jaipur's own bundle.
C27_Witness ==
    /\ pc = "rendered"
    /\ origin = "model"
    /\ selected_city = "jaipur"
    /\ current_model.city = "jaipur"
    /\ \E v \in s3_cache["new_delhi"] \cup local_cache["new_delhi"] : v # None

====
